---- MODULE Spec2Model ----
(***************************************************************************)
(* The encrypted wallet store of cew (src/src/actions.ts, the store part), *)
(* the identity registry built on it (src/src/walletManager.ts), the       *)
(* network registry (src/src/networkManager.ts) and the two menu handlers  *)
(* of src/src/cli.ts that write the active pointers themselves.            *)
(*                                                                         *)
(* A JSON object is a TLA+ record whose domain is the set of its own       *)
(* properties: a property can be absent, or present with the value         *)
(* undefined.  JSON.stringify drops the properties whose value is          *)
(* undefined, so what is read back from the file is not in general the     *)
(* object that was written.  Display-only properties (name, rpcUrl,        *)
(* symbol, explorerUrl, decimals) take part in no decision of the code     *)
(* and are left out of the records.                                        *)
(***************************************************************************)
EXTENDS Integers, Sequences, FiniteSets, TLC

VARIABLES
    file,         \* the content of WALLET_FILE
    sessionKey,   \* actions.ts:265
    currentSalt,  \* actions.ts:266
    cachedData,   \* actions.ts:267
    uuidCount,    \* number of uuidv4() values drawn so far
    genCount,     \* number of generateMnemonic() values drawn so far
    everDerived,  \* history: wallet id -> address indices derived in it so far
    origin,       \* history: what WALLET_FILE was when the first process started
    previous,     \* history: the session key and document of the process before this one
    last,         \* the last call: its name, the error it threw, what it returned
    budget,       \* calls the environment may still make
    env,          \* the lines of the file ENV_PATH as key and value, what the
                  \* shell exported, and process.env
    stage,        \* where the process is in startup() of cli.ts:96-190
    pending,      \* the importKeystore call that awaits its decryption, or null
    prompt        \* the menu prompt that awaits its answer, or null

vars == <<file, sessionKey, currentSalt, cachedData, uuidCount, genCount,
          everDerived, origin, previous, last, budget, env, stage, pending, prompt>>

-----------------------------------------------------------------------------
(* Bounds of the model. *)

MaxOps == 4
MaxWalletOps == 5
MaxTokenOps == 5
MaxNetworkOps == 5
MaxFileOps == 4
MaxSigningOps == 5
MaxEnvOps == 4
MaxStartupOps == 7
MaxKeystoreOps == 5
MaxStoredOps == 4
NumGeneratedKeys == 2
MaxWallets == 2
MaxAccounts == 11
MaxCustomNetworks == 1
MaxTokens == 2
NumSalts == 2
NumIVs == 1

-----------------------------------------------------------------------------
(* Values. *)

null == [null |-> TRUE]
undefined == "undefined"
nullSalt == "null"
\* The numbers of a document are chain ids, which are positive.  NaN is what
\* parseInt gives for text that does not start with a digit (cli.ts:745);
\* NullNumber is the null that JSON.parse reads where JSON.stringify was given
\* NaN.  Each is a value of its own among the numbers.
NaN == 0 - 1
NullNumber == 0 - 2

Has(obj, f) == f \in DOMAIN obj
Get(obj, f) == IF f \in DOMAIN obj THEN obj[f] ELSE undefined
SetField(obj, f, v) ==
    [k \in DOMAIN obj \cup {f} |-> IF k = f THEN v ELSE obj[k]]
\* !x for a property that holds a string when it is set
Falsy(obj, f) == Get(obj, f) = undefined \/ Get(obj, f) = ""
\* !x for a property that holds an array or an object when it is set
Missing(obj, f) == ~Has(obj, f)

\* a JSON value that is not an object, as the text JSON.stringify writes of
\* it.  Of a number, a string or a boolean each property reads as undefined,
\* and the assignment of a property throws a TypeError (the modules are strict
\* code); of null the reading of a property throws a TypeError as well
JsonScalar(text) == [scalar |-> text]
IsScalar(json) == Has(json, "scalar")
\* the text null: JSON.parse gives null for it
JsonNull == JsonScalar("null")
\* 0, false and the empty string
FalsyScalars == {JsonScalar("0"), JsonScalar("false"), JsonScalar("\"\"")}
\* !cachedData (actions.ts:374): nothing is loaded, or what is loaded is falsy
NoDocument(data) == data = null \/ data = JsonNull \/ data \in FalsyScalars

Filter(s, Keep(_)) == SelectSeq(s, Keep)
\* Array.prototype.find: the first element that satisfies the test
FindIndex(s, Test(_)) ==
    IF \E i \in DOMAIN s : Test(s[i])
    THEN CHOOSE i \in DOMAIN s : Test(s[i]) /\ \A j \in 1..(i - 1) : ~Test(s[j])
    ELSE 0

Passwords == {"correct-horse", "tr0ub4dor"}
Salts == {"salt" \o ToString(i) : i \in 1..NumSalts}
IVs == {"iv" \o ToString(i) : i \in 1..NumIVs}
Uuid(n) == "uuid-" \o ToString(n)

-----------------------------------------------------------------------------
(* JSON and the cipher envelope (actions.ts:281-283, 386-404, 326-340). *)

PointerFields == {"activeWalletId", "activeAccountAddress", "activeNetworkId"}

\* JSON.stringify followed by JSON.parse (actions.ts:390, 340): a property
\* whose value is undefined is not written, so it is absent from what is read
\* back, and NaN is written as null.
JsonRoundTrip(data) ==
    LET kept == {k \in DOMAIN data : ~(k \in PointerFields /\ data[k] = undefined)}
        entry(e) == [f \in DOMAIN e |->
                        IF f = "chainId" /\ e[f] = NaN THEN NullNumber ELSE e[f]]
    IN  [k \in kept |->
            IF k \in {"networks", "tokens"}
            THEN [i \in DOMAIN data[k] |-> entry(data[k][i])]
            ELSE data[k]]

\* crypto.scryptSync(password, salt, KEY_LEN): deterministic, and distinct for
\* distinct (password, salt)
deriveKey(password, salt) == [password |-> password, salt |-> salt]

\* aes-256-gcm: the ciphertext opens only under the key and iv it was made
\* with, and the tag authenticates key, iv and text together
CipherText(key, iv, text) == [under |-> <<key, iv>>, text |-> text]
AuthTag(key, iv, text) == [mac |-> <<key, iv, text>>]
\* faulty variant: the tag is not verified, any key opens the text
DecipherOk_NoAuth(key, iv, tag, data) == data.under[2] = iv

DecipherOk(key, iv, tag, data) ==
    /\ data.under = <<key, iv>>
    /\ tag = AuthTag(key, iv, data.text)

NoFile == [exists |-> FALSE]
FileOf(json) == [exists |-> TRUE, parses |-> TRUE, json |-> json]
\* a file whose text JSON.parse rejects
UnparseableFile == [exists |-> TRUE, parses |-> FALSE]

\* faulty variant: the salt written is not the salt of the session
Envelope_OtherSalt(data, key, salt, iv) ==
    [encrypted |-> TRUE,
     salt |-> IF salt = "salt1" THEN "salt2" ELSE "salt1",
     iv |-> iv,
     tag |-> AuthTag(key, iv, JsonRoundTrip(data)),
     data |-> CipherText(key, iv, JsonRoundTrip(data))]

\* the object saveStore writes (actions.ts:386-404)
Envelope(data, key, salt, iv) ==
    [encrypted |-> TRUE,
     salt |-> salt,
     iv |-> iv,
     tag |-> AuthTag(key, iv, JsonRoundTrip(data)),
     data |-> CipherText(key, iv, JsonRoundTrip(data))]

\* json.encrypted as a condition (actions.ts:327)
IsEncryptedJson(json) == Has(json, "encrypted") /\ json.encrypted = TRUE

-----------------------------------------------------------------------------
(* The store document (actions.ts:223-262, 307-311). *)

sepolia == [id |-> "sepolia", chainId |-> 11155111]
anvil == [id |-> "anvil", chainId |-> 31337]
defaultNetworks == <<sepolia, anvil>>

\* faulty variant: the new document names no active network
NewStoreData_NoActiveNetwork ==
    [wallets |-> <<>>, networks |-> defaultNetworks, tokens |-> <<>>]

\* actions.ts:311
NewStoreData ==
    [wallets |-> <<>>, networks |-> defaultNetworks,
     activeNetworkId |-> "sepolia", tokens |-> <<>>]

\* the first schema (actions.ts:429-433, 478): wallets and the two wallet pointers only
FirstSchemaData == [wallets |-> <<>>]

-----------------------------------------------------------------------------
(* The session (actions.ts:264-267, 300-405). *)

StoreLocked == "Wallet locked. Please unlock first."
SaveLocked == "Cannot save: Wallet locked"
IncorrectPassword == "Incorrect password"
CorruptedDocument == "Corrupted wallet data file"
\* what the runtime throws when a property of undefined is read
\* (store.networks.find with no networks) or when Buffer.from is given undefined
TypeError == "TypeError"
\* what cancellablePrompt rejects with when the user presses ESC
\* (networkManager.ts:187-223)
CancelError == "CancelError"

\* a position in startup() of cli.ts
At(name) == [at |-> name]

Call(op, args, err, ret) == [op |-> op, args |-> args, err |-> err, ret |-> ret]
Ok(op, args, ret) == Call(op, args, "none", ret)
\* what a handler gives back when it returns before it has changed anything
EarlyReturn == [early |-> TRUE]
\* a handler has reached an await: it has not returned yet
Awaiting == [awaiting |-> TRUE]

\* every call of the environment spends one unit of the budget
Spend == budget > 0 /\ budget' = budget - 1

\* faulty variant: a call that throws drops the document
Throw_Reset(op, args, err) ==
    /\ last' = Call(op, args, err, null)
    /\ file' = file
    /\ cachedData' = null

\* a call that throws before it has assigned anything
Throw(op, args, err) ==
    /\ last' = Call(op, args, err, null)
    /\ UNCHANGED <<file, cachedData>>

\* saveStore(data) at the end of operation op, which then returns ret
\* (actions.ts:380-405): the cache is assigned first, then the lock is checked
saveStore(data, op, args, ret) ==
    /\ cachedData' = data
    /\ IF sessionKey = null \/ currentSalt = nullSalt
       THEN /\ file' = file
            /\ last' = Call(op, args, SaveLocked, null)
       ELSE \E iv \in IVs :
            /\ file' = FileOf(Envelope(data, sessionKey, currentSalt, iv))
            /\ last' = Ok(op, args, ret)

\* faulty variant: the default networks are appended on every unlock
Migrated_AppendDefaults(data) ==
    SetField(SetField(SetField(data, "networks",
                               (IF Missing(data, "networks") THEN <<>> ELSE data.networks)
                                   \o defaultNetworks),
                      "activeNetworkId", "sepolia"),
             "tokens", IF Missing(data, "tokens") THEN <<>> ELSE data.tokens)

\* actions.ts:343-357: the two migrations of an opened document
Migrated(data) ==
    LET withNetworks ==
            IF Missing(data, "networks")
            THEN LET n == SetField(SetField(data, "networks", defaultNetworks),
                                   "activeNetworkId", "sepolia")
                 IN  IF Missing(n, "tokens") THEN SetField(n, "tokens", <<>>) ELSE n
            ELSE data
    IN  IF Missing(withNetworks, "tokens")
        THEN SetField(withNetworks, "tokens", <<>>)
        ELSE withNetworks

\* unlockStore, case 1 (actions.ts:303-316)
UnlockNew(password) ==
    /\ ~file.exists
    /\ \E salt \in Salts, iv \in IVs :
        /\ currentSalt' = salt
        /\ sessionKey' = deriveKey(password, salt)
        /\ cachedData' = NewStoreData
        /\ file' = FileOf(Envelope(NewStoreData, deriveKey(password, salt), salt, iv))
    /\ last' = Ok("unlockStore", <<password>>, null)

\* unlockStore, the file does not parse (actions.ts:318-324)
UnlockCorrupted(password) ==
    /\ file.exists /\ ~file.parses
    /\ Throw("unlockStore", <<password>>, CorruptedDocument)
    /\ UNCHANGED <<sessionKey, currentSalt>>

\* unlockStore, case 2 (actions.ts:326-361).  Buffer.from(undefined, 'hex')
\* throws a TypeError, outside the try block: for salt before currentSalt is
\* assigned, for iv and tag after.  Whatever is thrown inside the try block is
\* reported as "Incorrect password": so is the TypeError of
\* cachedData.networks (actions.ts:344, the text that was opened is null) and
\* of the assignment cachedData.networks = [...] (actions.ts:345, it is a
\* number, a string or a boolean), and by then cachedData and sessionKey are
\* assigned (actions.ts:340-341).
UnlockEncrypted(password) ==
    /\ file.exists /\ file.parses /\ IsEncryptedJson(file.json)
    /\ LET json == file.json IN
       IF Missing(json, "salt")
       THEN /\ Throw("unlockStore", <<password>>, TypeError)
            /\ UNCHANGED <<sessionKey, currentSalt>>
       ELSE IF Missing(json, "iv") \/ Missing(json, "tag")
       THEN /\ currentSalt' = json.salt
            /\ sessionKey' = sessionKey
            /\ Throw("unlockStore", <<password>>, TypeError)
       ELSE LET key == deriveKey(password, json.salt) IN
            /\ currentSalt' = json.salt
            /\ IF Has(json, "data") /\ DecipherOk(key, json.iv, json.tag, json.data)
                    /\ IsScalar(json.data.text)
               THEN /\ sessionKey' = key
                    /\ cachedData' = IF json.data.text = JsonNull THEN null
                                      ELSE json.data.text
                    /\ file' = file
                    /\ last' = Call("unlockStore", <<password>>, IncorrectPassword, null)
               ELSE IF Has(json, "data") /\ DecipherOk(key, json.iv, json.tag, json.data)
               THEN LET data == Migrated(json.data.text)
                    IN  /\ sessionKey' = key
                        /\ cachedData' = data
                        /\ IF data # json.data.text
                           THEN \E iv \in IVs :
                                  file' = FileOf(Envelope(data, key, json.salt, iv))
                           ELSE file' = file
                        /\ last' = Ok("unlockStore", <<password>>, null)
               ELSE /\ sessionKey' = sessionKey
                    /\ Throw("unlockStore", <<password>>, IncorrectPassword)

\* unlockStore, the file holds the text null: json.encrypted (actions.ts:327)
\* throws a TypeError before anything is assigned
UnlockNull(password) ==
    /\ file.exists /\ file.parses /\ file.json = JsonNull
    /\ Throw("unlockStore", <<password>>, TypeError)
    /\ UNCHANGED <<sessionKey, currentSalt>>

\* faulty variant: the document is loaded and the plaintext file is left as it is
UnlockLegacy_NoUpgrade(password) ==
    /\ file.exists /\ file.parses /\ ~IsEncryptedJson(file.json)
    /\ file.json # JsonNull
    /\ \E salt \in Salts :
        /\ currentSalt' = salt
        /\ sessionKey' = deriveKey(password, salt)
        /\ cachedData' = file.json
        /\ file' = file
    /\ last' = Ok("unlockStore", <<password>>, null)

\* unlockStore, case 3 (actions.ts:362-370): whatever JSON.parse gave, is not
\* null and does not carry the marker is taken as the document
UnlockLegacy(password) ==
    /\ file.exists /\ file.parses /\ ~IsEncryptedJson(file.json)
    /\ file.json # JsonNull
    /\ \E salt \in Salts, iv \in IVs :
        /\ currentSalt' = salt
        /\ sessionKey' = deriveKey(password, salt)
        /\ cachedData' = file.json
        /\ file' = FileOf(Envelope(file.json, deriveKey(password, salt), salt, iv))
    /\ last' = Ok("unlockStore", <<password>>, null)

\* handleSwitchWallet holds the object loadStore gave it across its prompt
\* (cli.ts:508, 518-524).  The operations of the stores change that object in
\* place; unlockStore assigns a new object to cachedData (actions.ts:311, 341,
\* 364), and the handler is left with the old one
DetachedPrompt ==
    IF prompt # null /\ prompt.op = "handleSwitchWallet" /\ prompt.store = null
    THEN [prompt EXCEPT !.store = cachedData]
    ELSE prompt

\* whether unlockStore(password) reaches an assignment of cachedData
\* (actions.ts:311, 341, 364): it does when it returns, and also when it has
\* opened the text of an envelope and throws after that (actions.ts:341-360)
AssignsCache(password) ==
    IF ~file.exists THEN TRUE
    ELSE IF ~file.parses \/ file.json = JsonNull THEN FALSE
    ELSE IF ~IsEncryptedJson(file.json) THEN TRUE
    ELSE /\ {"salt", "iv", "tag", "data"} \subseteq DOMAIN file.json
         /\ DecipherOk(deriveKey(password, file.json.salt), file.json.iv,
                       file.json.tag, file.json.data)

\* the body of unlockStore (actions.ts:300-371)
unlockStoreWith(password) ==
    /\ \/ UnlockNew(password)
       \/ UnlockCorrupted(password)
       \/ UnlockNull(password)
       \/ UnlockEncrypted(password)
       \/ UnlockLegacy(password)
    /\ prompt' = IF AssignsCache(password) THEN DetachedPrompt ELSE prompt

unlockStore ==
    /\ Spend
    /\ \E password \in Passwords : unlockStoreWith(password)
    /\ UNCHANGED <<uuidCount, genCount, everDerived, origin, previous, env, stage,
                   pending>>

\* loadStore called by itself (actions.ts:373-378)
loadStore ==
    /\ Spend
    /\ IF NoDocument(cachedData)
       THEN last' = Call("loadStore", <<>>, StoreLocked, null)
       ELSE last' = Ok("loadStore", <<>>, cachedData)
    /\ UNCHANGED <<file, sessionKey, currentSalt, cachedData, uuidCount, genCount,
                   everDerived, origin, previous, env, stage, pending, prompt>>

\* the variables of the environment the program writes
EnvKeys == {"PRIVATE_KEY", "RPC_URL", "TOKEN_ADDRESS"}
NoVars == [k \in EnvKeys |-> undefined]

\* dotenv.config (networkManager.ts:113) at the start of a process: a variable
\* the shell exported is kept, any other takes the value of the last line of
\* the file that has its key
dotenvConfig(lines, shell) ==
    [k \in EnvKeys |->
        IF shell[k] # undefined THEN shell[k]
        ELSE LET at == {i \in DOMAIN lines : lines[i].key = k}
             IN  IF at = {} THEN undefined
                 ELSE lines[CHOOSE i \in at : \A j \in at : j <= i].value]

\* the process ends and a new one starts: the module variables of
\* actions.ts:265-267 start again at null, process.env is loaded again, the
\* files stay
Restart ==
    /\ Spend
    /\ sessionKey' = null
    /\ currentSalt' = nullSalt
    /\ cachedData' = null
    /\ previous' = [key |-> sessionKey, data |-> cachedData]
    /\ last' = Ok("restart", <<>>, null)
    /\ stage' = At("startup")
    /\ pending' = null
    /\ prompt' = null
    /\ env' = [env EXCEPT !.process = dotenvConfig(env.lines, env.shell)]
    /\ UNCHANGED <<file, uuidCount, genCount, everDerived, origin>>

-----------------------------------------------------------------------------
(* The collaborators of the identity registry (viem/accounts, uuid). *)

\* a mnemonic is the list of its words, what mnemonic.split(' ') yields
Phrase(word, n) == [i \in 1..n |-> word]
\* faulty variant: every call gives the same phrase
GenMnemonic_Fixed(n) == Phrase("gen1", 12)

\* generateMnemonic(english): a phrase of 12 words never produced before
GenMnemonic(n) == Phrase("gen" \o ToString(n), 12)
\* the phrases a user brings: one of 12 words, one of 11
OwnPhrase == Phrase("legal", 12)
ShortPhrase == Phrase("short", 11)

\* mnemonicToAccount(mnemonic, {addressIndex}).address: one address for each
\* (mnemonic, index); the phrases of the model differ in their first word
mnemonicToAccount(mnemonic, addressIndex) ==
    "0x" \o mnemonic[1] \o "/" \o ToString(addressIndex)

\* the derivation path written by walletManager.ts:27, 56, 81
PathOf(index) == "m/44'/60'/0'/0/" \o ToString(index)

\* faulty variant: the index falls back to 0 whatever the path
ParseIndex_Zero(path) == 0

\* parseInt(path.split('/').pop()) on a path written by PathOf
ParseIndex(path) == CHOOSE index \in 0..MaxAccounts : PathOf(index) = path

\* privateKeyToAccount(key).address: "" stands for the exception thrown on a
\* malformed key.  The second key is the key of an account that importing
\* OwnPhrase derives as well.
ExternalAddress == "0xext/1"
KeyOf(address) == "key:" \o address
PrivateKeys == {KeyOf(ExternalAddress), KeyOf(mnemonicToAccount(OwnPhrase, 0)), "not-a-key"}
privateKeyToAccount(privateKey) ==
    IF \E a \in {ExternalAddress, mnemonicToAccount(OwnPhrase, 0)} : KeyOf(a) = privateKey
    THEN CHOOSE a \in {ExternalAddress, mnemonicToAccount(OwnPhrase, 0)} : KeyOf(a) = privateKey
    ELSE ""
InvalidKey == "invalid private key"

-----------------------------------------------------------------------------
(* The identity registry (walletManager.ts). *)

InvalidMnemonic == "Invalid mnemonic"
CannotDerive == "Cannot derive account: Wallet not found or not HD"
WalletNotFound == "Wallet not found"
NoActiveWallet == "No active wallet"
NoActiveAccount == "No active account selected"
AccountNotFound == "Account not found in active wallet"
NoActiveWalletSelected == "No active wallet selected"

\* store.wallets.find(w => w.id === id), as a position (0: not found)
FindWallet(store, id) == FindIndex(store.wallets, LAMBDA w : w.id = id)

WalletIds(store) == {store.wallets[i].id : i \in DOMAIN store.wallets}
\* the ids a caller may pass: those of the wallets, and one of no wallet
WalletIdArgs(store) == WalletIds(store) \cup {Uuid(0)}

\* wallet.accounts.push(account) on the wallet at position i
PushAccount(store, i, account) ==
    SetField(store, "wallets",
             [store.wallets EXCEPT ![i].accounts = Append(@, account)])

\* the accounts importMnemonic derives (walletManager.ts:52-59)
ImportBatch == 10
\* faulty variant: the loop starts at index 1
ImportedAccounts_FromOne(mnemonic) ==
    [k \in 1..ImportBatch |->
        [address |-> mnemonicToAccount(mnemonic, k), path |-> PathOf(k)]]

ImportedAccounts(mnemonic) ==
    [k \in 1..ImportBatch |->
        [address |-> mnemonicToAccount(mnemonic, k - 1), path |-> PathOf(k - 1)]]

\* the index deriveNewAccount derives at (walletManager.ts:76)
DeriveIndex(wallet) == Len(wallet.accounts)

\* what a registry call leaves alone
MenuFrame ==
    UNCHANGED <<sessionKey, currentSalt, origin, previous, env, stage, pending>>
RegistryFrame == MenuFrame /\ UNCHANGED prompt
NoDraw == UNCHANGED <<uuidCount, genCount, everDerived>>

\* walletManager.ts:11-37.  In this and the operations below, a method called
\* on store.wallets throws a TypeError when the document has no wallets
createHDWallet ==
    /\ Spend /\ RegistryFrame
    /\ IF NoDocument(cachedData)
       THEN Throw("createHDWallet", <<>>, StoreLocked) /\ NoDraw
       ELSE IF Missing(cachedData, "wallets")
       THEN Throw("createHDWallet", <<>>, TypeError) /\ NoDraw
       ELSE /\ Len(cachedData.wallets) < MaxWallets
            /\ LET mnemonic == GenMnemonic(genCount + 1)
                   id == Uuid(uuidCount + 1)
                   address == mnemonicToAccount(mnemonic, 0)
                   newWallet == [id |-> id, type |-> "hd", mnemonic |-> mnemonic,
                                 accounts |-> <<[address |-> address, path |-> PathOf(0)]>>]
                   pushed == SetField(cachedData, "wallets",
                                      Append(cachedData.wallets, newWallet))
                   store == SetField(SetField(pushed, "activeWalletId", id),
                                     "activeAccountAddress", address)
               IN  /\ saveStore(store, "createHDWallet", <<>>,
                                [mnemonic |-> mnemonic, address |-> address])
                   /\ uuidCount' = uuidCount + 1
                   /\ genCount' = genCount + 1
                   /\ everDerived' = everDerived \cup {<<id, 0>>}

\* walletManager.ts:39-65
importMnemonic ==
    /\ Spend /\ RegistryFrame
    /\ \E mnemonic \in {OwnPhrase, ShortPhrase} \cup {GenMnemonic(n) : n \in 1..genCount} :
        IF NoDocument(cachedData)
        THEN Throw("importMnemonic", <<mnemonic>>, StoreLocked) /\ NoDraw
        ELSE IF Len(mnemonic) < 12
        THEN Throw("importMnemonic", <<mnemonic>>, InvalidMnemonic) /\ NoDraw
        ELSE IF Missing(cachedData, "wallets")
        THEN Throw("importMnemonic", <<mnemonic>>, TypeError) /\ NoDraw
        ELSE /\ Len(cachedData.wallets) < MaxWallets
             /\ LET id == Uuid(uuidCount + 1)
                    newWallet == [id |-> id, type |-> "hd", mnemonic |-> mnemonic,
                                  accounts |-> ImportedAccounts(mnemonic)]
                    pushed == SetField(cachedData, "wallets",
                                       Append(cachedData.wallets, newWallet))
                    store == SetField(SetField(pushed, "activeWalletId", id),
                                      "activeAccountAddress", newWallet.accounts[1].address)
                IN  /\ saveStore(store, "importMnemonic", <<mnemonic>>, null)
                    /\ uuidCount' = uuidCount + 1
                    /\ genCount' = genCount
                    /\ everDerived' = everDerived \cup {<<id, k>> : k \in 0..(ImportBatch - 1)}

\* walletManager.ts:69-89
deriveNewAccount ==
    /\ Spend /\ RegistryFrame
    /\ IF NoDocument(cachedData)
       THEN Throw("deriveNewAccount", <<Uuid(0)>>, StoreLocked) /\ NoDraw
       ELSE IF Missing(cachedData, "wallets")
       THEN Throw("deriveNewAccount", <<Uuid(0)>>, TypeError) /\ NoDraw
       ELSE \E walletId \in WalletIdArgs(cachedData) :
            LET i == FindWallet(cachedData, walletId) IN
            IF i = 0 \/ cachedData.wallets[i].type # "hd"
                     \/ Missing(cachedData.wallets[i], "mnemonic")
            THEN Throw("deriveNewAccount", <<walletId>>, CannotDerive) /\ NoDraw
            ELSE /\ Len(cachedData.wallets[i].accounts) < MaxAccounts
                 /\ LET wallet == cachedData.wallets[i]
                        index == DeriveIndex(wallet)
                        newAccount == [address |-> mnemonicToAccount(wallet.mnemonic, index),
                                       path |-> PathOf(index)]
                        store == SetField(PushAccount(cachedData, i, newAccount),
                                          "activeAccountAddress", newAccount.address)
                    IN  /\ saveStore(store, "deriveNewAccount", <<walletId>>, newAccount)
                        /\ everDerived' = everDerived \cup {<<walletId, index>>}
                        /\ UNCHANGED <<uuidCount, genCount>>

\* faulty variant: the key is not stored with the account
KeyAccount_NoKey(address, privateKey) == [address |-> address]

\* the account importPrivateKey pushes (walletManager.ts:99-103)
KeyAccount(address, privateKey) == [address |-> address, privateKey |-> privateKey]

\* walletManager.ts:91-108
importPrivateKey ==
    /\ Spend /\ RegistryFrame /\ NoDraw
    /\ \E privateKey \in PrivateKeys :
        IF NoDocument(cachedData)
        THEN Throw("importPrivateKey", <<privateKey, Uuid(0)>>, StoreLocked)
        ELSE IF Missing(cachedData, "wallets")
        THEN Throw("importPrivateKey", <<privateKey, Uuid(0)>>, TypeError)
        ELSE \E walletId \in WalletIdArgs(cachedData) :
             LET i == FindWallet(cachedData, walletId)
                 address == privateKeyToAccount(privateKey)
             IN  IF i = 0
                 THEN Throw("importPrivateKey", <<privateKey, walletId>>, WalletNotFound)
                 ELSE IF address = ""
                 THEN Throw("importPrivateKey", <<privateKey, walletId>>, InvalidKey)
                 ELSE /\ Len(cachedData.wallets[i].accounts) < MaxAccounts
                      /\ LET account == KeyAccount(address, privateKey)
                             store == SetField(PushAccount(cachedData, i, account),
                                               "activeAccountAddress", address)
                         IN  saveStore(store, "importPrivateKey",
                                       <<privateKey, walletId>>, [address |-> address])

\* wallet.accounts.filter(a => a.address !== address) (walletManager.ts:138)
RemoveAccount(accounts, address) ==
    Filter(accounts, LAMBDA a : a.address # address)

\* faulty variant: the first wallet of the list is removed
RemoveWallet_First(wallets, id) == SubSeq(wallets, 2, Len(wallets))

\* store.wallets.filter(w => w.id !== id) (walletManager.ts:152)
RemoveWallet(wallets, id) == Filter(wallets, LAMBDA w : w.id # id)

\* accounts[0]?.address
FirstAddress(accounts) == IF Len(accounts) > 0 THEN accounts[1].address ELSE undefined

\* walletManager.ts:130-145: the filtered list is assigned before its length
\* is tested
deleteActiveAccount ==
    /\ Spend /\ RegistryFrame /\ NoDraw
    /\ IF NoDocument(cachedData)
       THEN Throw("deleteActiveAccount", <<>>, StoreLocked)
       ELSE IF Missing(cachedData, "wallets")
       THEN Throw("deleteActiveAccount", <<>>, TypeError)
       ELSE LET i == FindWallet(cachedData, Get(cachedData, "activeWalletId")) IN
            IF i = 0
            THEN Throw("deleteActiveAccount", <<>>, NoActiveWallet)
            ELSE IF Falsy(cachedData, "activeAccountAddress")
            THEN Throw("deleteActiveAccount", <<>>, NoActiveAccount)
            ELSE LET accounts == cachedData.wallets[i].accounts
                     remaining == RemoveAccount(accounts, cachedData.activeAccountAddress)
                     filtered == SetField(cachedData, "wallets",
                                    [cachedData.wallets EXCEPT ![i].accounts = remaining])
                 IN  IF Len(remaining) = Len(accounts)
                     THEN /\ cachedData' = filtered
                          /\ file' = file
                          /\ last' = Call("deleteActiveAccount", <<>>, AccountNotFound, null)
                     ELSE saveStore(
                            SetField(filtered, "activeAccountAddress",
                                     FirstAddress(remaining)),
                            "deleteActiveAccount", <<>>, null)

\* walletManager.ts:157: the active wallet once the wallets `remaining` are left
ActiveWalletAfterDelete(store, remaining) ==
    IF Len(remaining) > 0 THEN remaining[1].id ELSE undefined

\* walletManager.ts:147-168: the filtered list is assigned before its length
\* is tested
deleteActiveWallet ==
    /\ Spend /\ RegistryFrame /\ NoDraw
    /\ IF NoDocument(cachedData)
       THEN Throw("deleteActiveWallet", <<>>, StoreLocked)
       ELSE IF Falsy(cachedData, "activeWalletId")
       THEN Throw("deleteActiveWallet", <<>>, NoActiveWalletSelected)
       ELSE IF Missing(cachedData, "wallets")
       THEN Throw("deleteActiveWallet", <<>>, TypeError)
       ELSE LET remaining == RemoveWallet(cachedData.wallets, cachedData.activeWalletId) IN
            IF Len(remaining) = Len(cachedData.wallets)
            THEN /\ cachedData' = SetField(cachedData, "wallets", remaining)
                 /\ file' = file
                 /\ last' = Call("deleteActiveWallet", <<>>, WalletNotFound, null)
            ELSE LET newId == ActiveWalletAfterDelete(cachedData, remaining)
                     newActive == FindIndex(remaining, LAMBDA w : w.id = newId)
                     newAddress == IF newId # undefined /\ newId # "" /\ newActive # 0
                                   THEN FirstAddress(remaining[newActive].accounts)
                                   ELSE undefined
                 IN  saveStore(
                        SetField(SetField(SetField(cachedData, "wallets", remaining),
                                          "activeWalletId", newId),
                                 "activeAccountAddress", newAddress),
                        "deleteActiveWallet", <<>>, null)

\* getActiveAccount (walletManager.ts:172-184): the first account of the active
\* wallet that has the active address; null when there is no active wallet or
\* no active address, undefined when no account has the address
getActiveAccount(store) ==
    LET i == IF Falsy(store, "activeWalletId") THEN 0
             ELSE FindWallet(store, store.activeWalletId)
    IN  IF i = 0 \/ Falsy(store, "activeAccountAddress") THEN null
        ELSE LET accounts == store.wallets[i].accounts
                 k == FindIndex(accounts, LAMBDA a : a.address = store.activeAccountAddress)
             IN  IF k = 0 THEN [undefined |-> TRUE] ELSE accounts[k]

NoActiveAccountFound == "No active account"
InvalidAccountState == "Invalid account state"

\* faulty variant: the raw key of the account is not looked at
getActiveViemAccountResult_NoKey(store) ==
    LET i == IF Falsy(store, "activeWalletId") THEN 0
             ELSE FindWallet(store, store.activeWalletId)
        account == getActiveAccount(store)
    IN  IF i = 0 \/ account = null \/ account = [undefined |-> TRUE]
        THEN [err |-> NoActiveAccountFound]
        ELSE IF /\ store.wallets[i].type = "hd"
                /\ Has(store.wallets[i], "mnemonic")
                /\ Has(account, "path")
        THEN [err |-> "none", source |-> "mnemonic",
              address |-> mnemonicToAccount(store.wallets[i].mnemonic,
                                            ParseIndex(account.path))]
        ELSE [err |-> InvalidAccountState]

\* getActiveViemAccount (walletManager.ts:187-200): the error it throws, or the
\* key source it uses and the address of the account it builds
getActiveViemAccountResult(store) ==
    LET i == IF Falsy(store, "activeWalletId") THEN 0
             ELSE FindWallet(store, store.activeWalletId)
        account == getActiveAccount(store)
    IN  IF i = 0 \/ account = null \/ account = [undefined |-> TRUE]
        THEN [err |-> NoActiveAccountFound]
        ELSE IF Has(account, "privateKey") /\ account.privateKey # ""
        THEN [err |-> "none", source |-> "privateKey",
              address |-> privateKeyToAccount(account.privateKey)]
        ELSE IF /\ store.wallets[i].type = "hd"
                /\ Has(store.wallets[i], "mnemonic")
                /\ Has(account, "path")
        THEN [err |-> "none", source |-> "mnemonic",
              address |-> mnemonicToAccount(store.wallets[i].mnemonic,
                                            ParseIndex(account.path))]
        ELSE [err |-> InvalidAccountState]

getActiveViemAccount ==
    /\ Spend /\ RegistryFrame /\ NoDraw
    /\ UNCHANGED <<file, cachedData>>
    /\ IF NoDocument(cachedData)
       THEN last' = Call("getActiveViemAccount", <<>>, StoreLocked, null)
       ELSE IF ~Falsy(cachedData, "activeWalletId") /\ Missing(cachedData, "wallets")
       THEN last' = Call("getActiveViemAccount", <<>>, TypeError, null)
       ELSE LET result == getActiveViemAccountResult(cachedData)
            IN  last' = Call("getActiveViemAccount", <<>>, result.err, result)

\* handleSwitchWallet up to its prompt (cli.ts:507-516): the wallets of the
\* store are the choices; the menu shows one prompt at a time
handleSwitchWallet ==
    /\ prompt = null
    /\ Spend /\ MenuFrame /\ NoDraw
    /\ UNCHANGED <<file, cachedData>>
    /\ IF NoDocument(cachedData)
       THEN /\ last' = Call("handleSwitchWallet", <<>>, StoreLocked, null)
            /\ prompt' = prompt
       ELSE IF Missing(cachedData, "wallets")
       THEN /\ last' = Call("handleSwitchWallet", <<>>, TypeError, null)
            /\ prompt' = prompt
       ELSE IF Len(cachedData.wallets) = 0
       THEN /\ last' = Ok("handleSwitchWallet", <<>>, EarlyReturn)
            /\ prompt' = prompt
       ELSE /\ last' = Ok("handleSwitchWallet", <<>>, Awaiting)
            /\ prompt' = [op |-> "handleSwitchWallet",
                          choices |-> WalletIds(cachedData),
                          store |-> null]

\* handleSwitchWallet from its prompt on (cli.ts:512-526): ESC makes the prompt
\* throw CancelError; otherwise the answer is written to the object loadStore
\* gave before the prompt, which is the cache unless unlockStore has replaced
\* it, and that object is saved
handleSwitchWalletAnswer ==
    /\ prompt # null /\ prompt.op = "handleSwitchWallet"
    /\ prompt.store = null => cachedData # null
    /\ Spend /\ MenuFrame /\ NoDraw
    /\ prompt' = null
    /\ \E id \in prompt.choices \cup {CancelError} :
        IF id = CancelError
        THEN Throw("handleSwitchWallet", <<>>, CancelError)
        ELSE LET held == IF prompt.store = null THEN cachedData ELSE prompt.store
                 i == FindWallet(held, id)
                 picked == SetField(held, "activeWalletId", id)
                 store == IF i # 0 /\ Len(held.wallets[i].accounts) > 0
                          THEN SetField(picked, "activeAccountAddress",
                                        held.wallets[i].accounts[1].address)
                          ELSE picked
             IN  saveStore(store, "handleSwitchWallet", <<id>>, null)

\* handleSwitchAccount up to its prompt (cli.ts:529-542): the accounts of the
\* active wallet are the choices
handleSwitchAccount ==
    /\ prompt = null
    /\ Spend /\ MenuFrame /\ NoDraw
    /\ UNCHANGED <<file, cachedData>>
    /\ IF NoDocument(cachedData)
       THEN /\ last' = Call("handleSwitchAccount", <<>>, StoreLocked, null)
            /\ prompt' = prompt
       ELSE IF ~Falsy(cachedData, "activeWalletId") /\ Missing(cachedData, "wallets")
       THEN /\ last' = Call("handleSwitchAccount", <<>>, TypeError, null)
            /\ prompt' = prompt
       ELSE LET i == IF Falsy(cachedData, "activeWalletId") THEN 0
                     ELSE FindWallet(cachedData, cachedData.activeWalletId)
            IN  IF i = 0 \/ Len(cachedData.wallets[i].accounts) = 0
                THEN /\ last' = Ok("handleSwitchAccount", <<>>, EarlyReturn)
                     /\ prompt' = prompt
                ELSE /\ last' = Ok("handleSwitchAccount", <<>>, Awaiting)
                     /\ prompt' = [op |-> "handleSwitchAccount",
                                   choices |-> {cachedData.wallets[i].accounts[k].address :
                                                  k \in DOMAIN cachedData.wallets[i].accounts}]

\* handleSwitchAccount from its prompt on (cli.ts:537-549): the store is loaded
\* after the prompt and the answer is assigned to it, which throws a TypeError
\* when unlockStore has left a number, a string or a boolean in the cache
handleSwitchAccountAnswer ==
    /\ prompt # null /\ prompt.op = "handleSwitchAccount"
    /\ Spend /\ MenuFrame /\ NoDraw
    /\ prompt' = null
    /\ \E address \in prompt.choices \cup {CancelError} :
        IF address = CancelError
        THEN Throw("handleSwitchAccount", <<>>, CancelError)
        ELSE IF NoDocument(cachedData)
        THEN Throw("handleSwitchAccount", <<>>, StoreLocked)
        ELSE IF IsScalar(cachedData)
        THEN Throw("handleSwitchAccount", <<>>, TypeError)
        ELSE saveStore(SetField(cachedData, "activeAccountAddress", address),
                       "handleSwitchAccount", <<address>>, null)

-----------------------------------------------------------------------------
(* Tokens (walletManager.ts:204-227). *)

TokenAlreadyExists == "Token already exists"

\* String.prototype.toLowerCase on the addresses of the model
toLowerCase(address) ==
    CASE address = "0xAB" -> "0xab"
      [] address = "0xCD" -> "0xcd"
      [] OTHER -> address

TokenAddresses == {"0xab", "0xAB", "0xcd"}
ChainIds == {sepolia.chainId, anvil.chainId}
TokenArgs == {[address |-> a, chainId |-> c] : a \in TokenAddresses, c \in ChainIds}

\* faulty variant: the addresses are compared as written
SameToken_CaseSensitive(t, address, chainId) ==
    t.address = address /\ t.chainId = chainId

\* the test of walletManager.ts:214 and :225
SameToken(t, address, chainId) ==
    toLowerCase(t.address) = toLowerCase(address) /\ t.chainId = chainId

\* walletManager.ts:209-219: store.tokens = [] throws a TypeError when the
\* store is a number, a string or a boolean
addToken ==
    /\ Spend /\ RegistryFrame /\ NoDraw
    /\ \E token \in TokenArgs :
        IF NoDocument(cachedData)
        THEN Throw("addToken", <<token>>, StoreLocked)
        ELSE IF IsScalar(cachedData)
        THEN Throw("addToken", <<token>>, TypeError)
        ELSE LET store == IF Missing(cachedData, "tokens")
                          THEN SetField(cachedData, "tokens", <<>>)
                          ELSE cachedData
             IN  IF \E k \in DOMAIN store.tokens :
                        SameToken(store.tokens[k], token.address, token.chainId)
                 THEN /\ last' = Call("addToken", <<token>>, TokenAlreadyExists, null)
                      /\ cachedData' = store
                      /\ file' = file
                 ELSE /\ Len(store.tokens) < MaxTokens
                      /\ saveStore(SetField(store, "tokens", Append(store.tokens, token)),
                                   "addToken", <<token>>, null)

\* faulty variant: the chain of the token is not compared
WithoutToken_AnyChain(tokens, address, chainId) ==
    Filter(tokens, LAMBDA t : toLowerCase(t.address) # toLowerCase(address))

\* the filter of walletManager.ts:225
WithoutToken(tokens, address, chainId) ==
    Filter(tokens, LAMBDA t : ~SameToken(t, address, chainId))

\* getTokens(chainId) (walletManager.ts:204-207), as the list it returns
getTokensResult(store, chainId) ==
    Filter(IF Missing(store, "tokens") THEN <<>> ELSE store.tokens,
           LAMBDA t : t.chainId = chainId)

getTokens ==
    /\ Spend /\ RegistryFrame /\ NoDraw
    /\ UNCHANGED <<file, cachedData>>
    /\ \E chainId \in ChainIds :
        IF NoDocument(cachedData)
        THEN last' = Call("getTokens", <<chainId>>, StoreLocked, null)
        ELSE last' = Ok("getTokens", <<chainId>>,
                        [tokens |-> getTokensResult(cachedData, chainId)])

\* walletManager.ts:221-227
removeToken ==
    /\ Spend /\ RegistryFrame /\ NoDraw
    /\ \E token \in TokenArgs :
        IF NoDocument(cachedData)
        THEN Throw("removeToken", <<token>>, StoreLocked)
        ELSE IF Missing(cachedData, "tokens")
        THEN /\ last' = Ok("removeToken", <<token>>, EarlyReturn)
             /\ UNCHANGED <<file, cachedData>>
        ELSE saveStore(
                SetField(cachedData, "tokens",
                         WithoutToken(cachedData.tokens, token.address, token.chainId)),
                "removeToken", <<token>>, null)

-----------------------------------------------------------------------------
(* Networks (networkManager.ts:7-102). *)

NetworkNotFound == "Network not found"
ActiveNetworkNotFound == "Active network configuration not found"
NoActiveNetwork == "No active network"
CannotDeleteDefaultNetwork == "Cannot delete default networks (Sepolia, Anvil)"

FindNetwork(store, id) == FindIndex(store.networks, LAMBDA n : n.id = id)
NetworkIds(store) == {store.networks[i].id : i \in DOMAIN store.networks}
CustomNetworks(store) ==
    {i \in DOMAIN store.networks : store.networks[i].id \notin {"sepolia", "anvil"}}

\* networkManager.ts:7-16, as the error it throws ("none": it returns a network)
getActiveNetworkError(store) ==
    IF Missing(store, "networks") THEN TypeError
    ELSE IF Falsy(store, "activeNetworkId") THEN "none"
    ELSE IF FindNetwork(store, store.activeNetworkId) = 0 THEN ActiveNetworkNotFound
    ELSE "none"

getActiveNetwork ==
    /\ Spend /\ RegistryFrame /\ NoDraw
    /\ UNCHANGED <<file, cachedData>>
    /\ IF NoDocument(cachedData)
       THEN last' = Call("getActiveNetwork", <<>>, StoreLocked, null)
       ELSE last' = Call("getActiveNetwork", <<>>, getActiveNetworkError(cachedData), null)

\* the chain id handleAddNetwork passes: parseInt of what was typed, with no
\* test of the result (cli.ts:737-745)
ChainIdArgs == ChainIds \cup {NaN}

\* networkManager.ts:61-74
addNetwork ==
    /\ Spend /\ RegistryFrame
    /\ \E chainId \in ChainIdArgs :
        IF NoDocument(cachedData)
        THEN Throw("addNetwork", <<chainId>>, StoreLocked) /\ NoDraw
        ELSE IF Missing(cachedData, "networks")
        THEN Throw("addNetwork", <<chainId>>, TypeError) /\ NoDraw
        ELSE /\ Cardinality(CustomNetworks(cachedData)) < MaxCustomNetworks
             /\ LET newNetwork == [id |-> Uuid(uuidCount + 1), chainId |-> chainId]
                IN  /\ saveStore(SetField(cachedData, "networks",
                                          Append(cachedData.networks, newNetwork)),
                                 "addNetwork", <<chainId>>, newNetwork)
                    /\ uuidCount' = uuidCount + 1
                    /\ UNCHANGED <<genCount, everDerived>>

\* faulty variant: the pointer is assigned before the network is looked up
switchNetwork_AssignFirst ==
    /\ Spend /\ RegistryFrame /\ NoDraw
    /\ IF NoDocument(cachedData)
       THEN Throw("switchNetwork", <<Uuid(0)>>, StoreLocked)
       ELSE IF Missing(cachedData, "networks")
       THEN Throw("switchNetwork", <<Uuid(0)>>, TypeError)
       ELSE \E networkId \in NetworkIds(cachedData) \cup {Uuid(0)} :
                IF FindNetwork(cachedData, networkId) = 0
                THEN /\ cachedData' = SetField(cachedData, "activeNetworkId", networkId)
                     /\ file' = file
                     /\ last' = Call("switchNetwork", <<networkId>>, NetworkNotFound, null)
                ELSE saveStore(SetField(cachedData, "activeNetworkId", networkId),
                               "switchNetwork", <<networkId>>, null)

\* networkManager.ts:76-83
switchNetwork ==
    /\ Spend /\ RegistryFrame /\ NoDraw
    /\ IF NoDocument(cachedData)
       THEN Throw("switchNetwork", <<Uuid(0)>>, StoreLocked)
       ELSE IF Missing(cachedData, "networks")
       THEN Throw("switchNetwork", <<Uuid(0)>>, TypeError)
       ELSE \E networkId \in NetworkIds(cachedData) \cup {Uuid(0)} :
                IF FindNetwork(cachedData, networkId) = 0
                THEN Throw("switchNetwork", <<networkId>>, NetworkNotFound)
                ELSE saveStore(SetField(cachedData, "activeNetworkId", networkId),
                               "switchNetwork", <<networkId>>, null)

\* faulty variant: the network is removed and the pointer is left on it
WithoutNetwork_KeepPointer(store, networkId) ==
    SetField(store, "networks", Filter(store.networks, LAMBDA n : n.id # networkId))

\* networkManager.ts:99-100: the document without the network, sepolia active
WithoutNetwork(store, networkId) ==
    SetField(SetField(store, "networks",
                      Filter(store.networks, LAMBDA n : n.id # networkId)),
             "activeNetworkId", "sepolia")

\* faulty variant: only sepolia is protected
IsDefaultNetwork_SepoliaOnly(networkId) == networkId = "sepolia"

\* the test of networkManager.ts:95
IsDefaultNetwork(networkId) == networkId = "sepolia" \/ networkId = "anvil"

\* networkManager.ts:90-102
deleteActiveNetwork ==
    /\ Spend /\ RegistryFrame /\ NoDraw
    /\ IF NoDocument(cachedData)
       THEN Throw("deleteActiveNetwork", <<>>, StoreLocked)
       ELSE LET networkId == Get(cachedData, "activeNetworkId") IN
            IF networkId = undefined \/ networkId = ""
            THEN Throw("deleteActiveNetwork", <<>>, NoActiveNetwork)
            ELSE IF IsDefaultNetwork(networkId)
            THEN Throw("deleteActiveNetwork", <<>>, CannotDeleteDefaultNetwork)
            ELSE IF Missing(cachedData, "networks")
            THEN Throw("deleteActiveNetwork", <<>>, TypeError)
            ELSE saveStore(WithoutNetwork(cachedData, networkId),
                           "deleteActiveNetwork", <<>>, null)

-----------------------------------------------------------------------------
(* The plain-text environment file and process.env (networkManager.ts:113,
   129-170, actions.ts:10-29, 204-212). *)

DefaultRpcUrl == "https://ethereum-sepolia-rpc.publicnode.com"

\* generatePrivateKey(): a random key, and the address privateKeyToAccount
\* gives for it
GeneratedAddress(n) == "0xnew/" \o ToString(n)
GeneratedKeys == {KeyOf(GeneratedAddress(n)) : n \in 1..NumGeneratedKeys}
AddressOfGenerated(privateKey) ==
    CHOOSE a \in {GeneratedAddress(n) : n \in 1..NumGeneratedKeys} : KeyOf(a) = privateKey

\* updateEnv(key, value) (networkManager.ts:129-155): every line of the key is
\* replaced, or a line is added at the end; then process.env[key] is assigned
updateEnv(e, key, value) ==
    LET lines == e.lines
        newLines ==
            IF \E i \in DOMAIN lines : lines[i].key = key
            THEN [i \in DOMAIN lines |->
                    IF lines[i].key = key THEN [key |-> key, value |-> value]
                    ELSE lines[i]]
            ELSE Append(lines, [key |-> key, value |-> value])
    IN  [e EXCEPT !.lines = newLines, !.process[key] = value]

\* savePrivateKey(privateKey) (networkManager.ts:157-162): the default RPC_URL
\* is written when process.env.RPC_URL is unset or empty
savePrivateKey(e, privateKey) ==
    LET saved == updateEnv(e, "PRIVATE_KEY", privateKey)
    IN  IF saved.process["RPC_URL"] = undefined \/ saved.process["RPC_URL"] = ""
        THEN updateEnv(saved, "RPC_URL", DefaultRpcUrl)
        ELSE saved

\* saveTokenAddress(address) (networkManager.ts:168-170)
saveTokenAddress(e, address) == updateEnv(e, "TOKEN_ADDRESS", address)

EnvFrame ==
    UNCHANGED <<file, sessionKey, currentSalt, cachedData, uuidCount, genCount,
                everDerived, origin, previous, stage, pending, prompt>>

\* actions.ts:10-29: it does not touch the store, locked or not
generateWallet ==
    /\ Spend /\ EnvFrame
    /\ \E privateKey \in GeneratedKeys :
        /\ env' = savePrivateKey(env, privateKey)
        /\ last' = Ok("generateWallet", <<>>,
                      [address |-> AddressOfGenerated(privateKey),
                       privateKey |-> privateKey])

\* the addresses setTokenAddress is given: one of 42 characters, one too short
EnvTokenAddress == "0xabababababababababababababababababababab"
EnvTokenAddressArgs == {EnvTokenAddress, "0xab"}
\* actions.ts:205: address.startsWith('0x') and address.length === 42
IsAddressFormat(address) == Len(address) = 42 /\ SubSeq(address, 1, 2) = "0x"

\* setTokenAddress (actions.ts:204-212): an address of another format is
\* reported on the console and nothing is written
setTokenAddress ==
    /\ Spend /\ EnvFrame
    /\ \E address \in EnvTokenAddressArgs :
        /\ env' = IF IsAddressFormat(address) THEN saveTokenAddress(env, address) ELSE env
        /\ last' = Ok("setTokenAddress", <<address>>, null)

\* updateEnv called by itself (exported by networkManager.ts:129)
EnvRpcUrls == {"", "http://127.0.0.1:8545"}
callUpdateEnv ==
    /\ Spend /\ EnvFrame
    /\ \E value \in EnvRpcUrls :
        /\ env' = updateEnv(env, "RPC_URL", value)
        /\ last' = Ok("updateEnv", <<"RPC_URL", value>>, null)

\* the .env file and the shell a process can be started with: no file or a
\* file with an empty RPC_URL line, RPC_URL exported by the shell or not
ShellRpcUrl == "http://shell"
EmptyEnv == [lines |-> <<>>, shell |-> NoVars, process |-> NoVars]
InitialEnvs ==
    {[lines |-> l, shell |-> s, process |-> dotenvConfig(l, s)] :
        l \in {<<>>, <<[key |-> "RPC_URL", value |-> ""]>>},
        s \in {NoVars, [NoVars EXCEPT !["RPC_URL"] = ShellRpcUrl]}}

-----------------------------------------------------------------------------
(* Keystore import (walletManager.ts:112-120). *)

\* a keystore file: the key it holds and the password it was encrypted with
Keystores == {[privateKey |-> KeyOf(ExternalAddress), password |-> "correct-horse"]}
KeystoreError == "incorrect password"

\* faulty variant: the keystore opens under any password
fromEncryptedJson_AnyPassword(keystore, password) == keystore.privateKey

\* EthersWallet.fromEncryptedJson(json, password).privateKey; "" stands for the
\* rejection of the promise when the password is not the one of the keystore
fromEncryptedJson(keystore, password) ==
    IF password = keystore.password THEN keystore.privateKey ELSE ""

KeystoreFrame ==
    UNCHANGED <<sessionKey, currentSalt, uuidCount, genCount, everDerived, origin,
                previous, env, stage, prompt>>

\* importKeystore up to its await (walletManager.ts:112-117): the keystore
\* file is read and the decryption is started; the call returns a promise
importKeystore ==
    /\ pending = null
    /\ Spend /\ KeystoreFrame
    /\ \E keystore \in Keystores, password \in Passwords,
          walletId \in (IF NoDocument(cachedData) \/ Missing(cachedData, "wallets")
                        THEN {Uuid(0)} ELSE WalletIdArgs(cachedData)) :
        /\ pending' = [keystore |-> keystore, password |-> password, walletId |-> walletId]
        /\ last' = Ok("importKeystore", <<password, walletId>>, [promise |-> "pending"])
    /\ UNCHANGED <<file, cachedData>>

\* importKeystore from its await on (walletManager.ts:117-119): the promise of
\* the decryption settles; when it is rejected the call throws what it threw,
\* otherwise importPrivateKey runs (walletManager.ts:91-108) on the store as it
\* is now
importKeystoreResume ==
    /\ pending # null
    /\ Spend /\ KeystoreFrame
    /\ pending' = null
    /\ LET args == <<pending.password, pending.walletId>>
           privateKey == fromEncryptedJson(pending.keystore, pending.password)
           walletId == pending.walletId
       IN  IF privateKey = ""
           THEN Throw("importKeystore", args, KeystoreError)
           ELSE IF NoDocument(cachedData)
           THEN Throw("importKeystore", args, StoreLocked)
           ELSE IF Missing(cachedData, "wallets")
           THEN Throw("importKeystore", args, TypeError)
           ELSE LET i == FindWallet(cachedData, walletId)
                    address == privateKeyToAccount(privateKey)
                IN  IF i = 0
                    THEN Throw("importKeystore", args, WalletNotFound)
                    ELSE IF address = ""
                    THEN Throw("importKeystore", args, InvalidKey)
                    ELSE /\ Len(cachedData.wallets[i].accounts) < MaxAccounts
                         /\ LET account == KeyAccount(address, privateKey)
                                store == SetField(PushAccount(cachedData, i, account),
                                                  "activeAccountAddress", address)
                            IN  saveStore(store, "importKeystore", args,
                                          [address |-> address])

-----------------------------------------------------------------------------
(* The interactive startup flow (cli.ts:96-190, actions.ts:285-298). *)

\* isStoreInitialized (actions.ts:285-287)
isStoreInitialized(f) == f.exists

\* isStoreEncrypted (actions.ts:289-298): false when the file is absent or does
\* not parse, otherwise whether encrypted, salt and iv are all truthy
isStoreEncrypted(f) ==
    IF ~isStoreInitialized(f) THEN FALSE
    ELSE IF ~f.parses THEN FALSE
    ELSE /\ IsEncryptedJson(f.json)
         /\ ~Falsy(f.json, "salt")
         /\ ~Falsy(f.json, "iv")

\* what a password prompt gives: a password, or CancelError
PromptAnswers == Passwords \cup {CancelError}

\* process.exit(code), with nothing of the store touched
Exit(code) ==
    /\ stage' = At("exited")
    /\ last' = Ok("startup", <<>>, [exit |-> code])
    /\ UNCHANGED <<file, sessionKey, currentSalt, cachedData, prompt>>

\* a step of startup() that ends at a prompt
StartupAwaits(at) ==
    /\ stage' = at
    /\ last' = Ok("startup", <<>>, Awaiting)
    /\ UNCHANGED <<file, sessionKey, currentSalt, cachedData, prompt>>

StartupFrame ==
    UNCHANGED <<uuidCount, genCount, everDerived, origin, previous, env, pending>>

\* startup() up to its first prompt (cli.ts:96-103, 130-134, 153-158): the
\* branch is chosen by isStoreInitialized and isStoreEncrypted; a password is
\* created for a file that is absent or is not seen as encrypted, and the
\* password loop is entered otherwise
startup ==
    /\ stage = At("startup")
    /\ Spend /\ StartupFrame
    /\ IF ~isStoreInitialized(file) THEN StartupAwaits(At("create"))
       ELSE IF isStoreEncrypted(file) THEN StartupAwaits(At("password"))
       ELSE StartupAwaits(At("create"))

\* the first prompt is answered (cli.ts:103-108, 158-163) and the second is shown
createPassword ==
    /\ stage = At("create")
    /\ Spend /\ StartupFrame
    /\ \E password \in PromptAnswers :
        IF password = CancelError THEN Exit(0)
        ELSE StartupAwaits([at |-> "confirm", password |-> password])

\* cli.ts:122-124, 173-176 and 184-187: when unlockStore returns a key press is
\* awaited; what it throws reaches the outer catch, which exits with code 1
StageAfterUnlock(err) == IF err = "none" THEN At("keypress") ELSE At("exited")

\* the second prompt is answered (cli.ts:110-122, 164-173): the two answers are
\* compared and unlockStore is called with the password
confirmPassword ==
    /\ stage.at = "confirm"
    /\ Spend /\ StartupFrame
    /\ \E confirm \in PromptAnswers :
        IF confirm = CancelError THEN Exit(0)
        ELSE IF stage.password # confirm THEN Exit(1)
        ELSE /\ unlockStoreWith(stage.password)
             /\ stage' = StageAfterUnlock(last'.err)

\* waitForKeypress resolves (networkManager.ts:171-182) and mainMenu() is
\* called (cli.ts:124, 176, 182)
keypress ==
    /\ stage = At("keypress")
    /\ Spend /\ StartupFrame
    /\ stage' = At("mainMenu")
    /\ UNCHANGED <<file, sessionKey, currentSalt, cachedData, prompt, last>>

\* one round of the password loop (cli.ts:131-152): whatever unlockStore
\* throws is reported as an incorrect password and the prompt comes again;
\* when it returns mainMenu() is called
enterPassword ==
    /\ stage = At("password")
    /\ Spend /\ StartupFrame
    /\ \E password \in PromptAnswers :
        IF password = CancelError THEN Exit(0)
        ELSE /\ unlockStoreWith(password)
             /\ stage' = IF last'.err = "none" THEN At("mainMenu") ELSE At("password")

\* the files unlockStore(password) can write when a process that has just
\* started calls it: the envelope of the new document for an absent file
\* (actions.ts:303-316), the envelope of a plaintext file (actions.ts:362-370),
\* and the envelope of the migrated document, under the salt of the file, when
\* the password opens an envelope whose document lacks networks or tokens
\* (actions.ts:343-357).  In every other case it writes nothing
UnlockWrites(password) ==
    IF ~file.exists
    THEN {FileOf(Envelope(NewStoreData, deriveKey(password, salt), salt, iv)) :
            salt \in Salts, iv \in IVs}
    ELSE IF ~file.parses \/ file.json = JsonNull THEN {}
    ELSE IF ~IsEncryptedJson(file.json)
    THEN {FileOf(Envelope(file.json, deriveKey(password, salt), salt, iv)) :
            salt \in Salts, iv \in IVs}
    ELSE IF ~({"salt", "iv", "tag", "data"} \subseteq DOMAIN file.json) THEN {}
    ELSE LET json == file.json
             key == deriveKey(password, json.salt)
         IN  IF /\ DecipherOk(key, json.iv, json.tag, json.data)
                /\ ~IsScalar(json.data.text)
                /\ Migrated(json.data.text) # json.data.text
             THEN {FileOf(Envelope(Migrated(json.data.text), key, json.salt, iv)) :
                     iv \in IVs}
             ELSE {}

\* unlockStore run by another process while this one waits at a prompt: of
\* what it does this process sees the file it writes.  Processes that run one
\* after the other are the runs with Restart
otherProcessUnlock ==
    /\ Spend /\ StartupFrame
    /\ \E password \in Passwords :
        \E written \in UnlockWrites(password) : file' = written
    /\ UNCHANGED <<sessionKey, currentSalt, cachedData, prompt, last, stage>>

-----------------------------------------------------------------------------
(* The environment. *)

\* saveStore called with a document while no unlock has succeeded: with the
\* session unlocked the callers of the repository pass the object loadStore gave
\* them, which the handlers above model
saveStoreLocked ==
    /\ Spend
    /\ sessionKey = null
    /\ cachedData = null
    /\ saveStore(NewStoreData, "saveStore", <<NewStoreData>>, null)
    /\ UNCHANGED <<sessionKey, currentSalt, uuidCount, genCount, everDerived, origin,
                   previous, env, stage, pending, prompt>>

\* documents written by earlier versions of the store: one of the first schema
\* with a wallet in it (actions.ts:414-433), and one that has networks and no
\* tokens yet (the "intermediate state" of actions.ts:354)
FirstSchemaWallet ==
    [wallets |-> <<[id |-> "uuid-first", type |-> "hd", mnemonic |-> OwnPhrase,
                    accounts |-> <<[address |-> mnemonicToAccount(OwnPhrase, 0),
                                    path |-> PathOf(0)]>>]>>,
     activeWalletId |-> "uuid-first",
     activeAccountAddress |-> mnemonicToAccount(OwnPhrase, 0)]
IntermediateData ==
    [wallets |-> <<>>, networks |-> defaultNetworks, activeNetworkId |-> "anvil"]
\* a JSON object that is neither an envelope nor a document
OtherJson == [version |-> 1]
\* documents of the present schema in which a pointer names nothing.  A
\* process leaves the first when the wallet picked at the prompt of
\* cli.ts:512 was deleted while the prompt was open: one wallet is left and
\* activeWalletId names the deleted one.  A process leaves the second when an
\* account was derived in the wallet that is not the active one
\* (walletManager.ts:86): activeAccountAddress is the second account of the
\* first wallet and the second wallet is active.
StoredWallet == FirstSchemaWallet.wallets[1]
StaleWalletData ==
    [wallets |-> <<StoredWallet>>,
     activeWalletId |-> "uuid-deleted",
     activeAccountAddress |-> StoredWallet.accounts[1].address,
     networks |-> defaultNetworks, activeNetworkId |-> "sepolia", tokens |-> <<>>]
StaleAccountData ==
    [wallets |-> <<[StoredWallet EXCEPT
                      !.accounts = Append(@, [address |-> mnemonicToAccount(OwnPhrase, 1),
                                              path |-> PathOf(1)])],
                   [id |-> "uuid-second", type |-> "hd", mnemonic |-> Phrase("stored", 12),
                    accounts |-> <<[address |-> mnemonicToAccount(Phrase("stored", 12), 0),
                                    path |-> PathOf(0)]>>]>>,
     activeWalletId |-> "uuid-second",
     activeAccountAddress |-> mnemonicToAccount(OwnPhrase, 1),
     networks |-> defaultNetworks, activeNetworkId |-> "sepolia", tokens |-> <<>>]
\* what WALLET_FILE can be when the first process starts: absent, a plaintext
\* document of the first schema, or a document of the first schema encrypted
\* by the first encrypting store (actions.ts:471-556); then the files of the
\* other shapes unlockStore tells apart (actions.ts:318-331), among them text
\* that JSON.parse reads as a value that is not an object; then the envelopes
\* of the two documents with a pointer that names nothing
FirstSchemaKey == deriveKey("correct-horse", "salt1")
FirstEnvelope(data) == Envelope(data, FirstSchemaKey, "salt1", "iv1")
WithoutField(json, f) == [k \in DOMAIN json \ {f} |-> json[k]]
InitialFiles ==
    [none |-> NoFile,
     legacy |-> FileOf(FirstSchemaData),
     encrypted |-> FileOf(Envelope(FirstSchemaData, FirstSchemaKey, "salt1", "iv1")),
     encryptedWallet |-> FileOf(FirstEnvelope(FirstSchemaWallet)),
     intermediate |-> FileOf(FirstEnvelope(IntermediateData)),
     unparseable |-> UnparseableFile,
     other |-> FileOf(OtherJson),
     noSalt |-> FileOf(WithoutField(FirstEnvelope(FirstSchemaData), "salt")),
     noIv |-> FileOf(WithoutField(FirstEnvelope(FirstSchemaData), "iv")),
     zero |-> FileOf(JsonScalar("0")),
     false |-> FileOf(JsonScalar("false")),
     emptyString |-> FileOf(JsonScalar("\"\"")),
     one |-> FileOf(JsonScalar("1")),
     jsonNull |-> FileOf(JsonNull),
     staleWallet |-> FileOf(FirstEnvelope(StaleWalletData)),
     staleAccount |-> FileOf(FirstEnvelope(StaleAccountData))]

InitStore(origins, ops) ==
    /\ origin \in origins
    /\ file = InitialFiles[origin]
    /\ sessionKey = null
    /\ currentSalt = nullSalt
    /\ cachedData = null
    /\ uuidCount = 0
    /\ genCount = 0
    /\ everDerived = {}
    /\ previous = [key |-> null, data |-> null]
    /\ last = Ok("start", <<>>, null)
    /\ budget = ops
    /\ stage = At("startup")
    /\ pending = null
    /\ prompt = null

InitWith(origins, ops) == InitStore(origins, ops) /\ env = EmptyEnv

Init == InitWith({"none", "legacy", "encrypted"}, MaxOps)

SessionOps == unlockStore \/ loadStore \/ Restart \/ saveStoreLocked
WalletOps ==
    \/ createHDWallet \/ importMnemonic \/ deriveNewAccount \/ importPrivateKey
    \/ deleteActiveAccount \/ deleteActiveWallet
    \/ handleSwitchWallet \/ handleSwitchWalletAnswer
    \/ handleSwitchAccount \/ handleSwitchAccountAnswer
TokenOps == addToken \/ removeToken
NetworkOps == getActiveNetwork \/ addNetwork \/ switchNetwork \/ deleteActiveNetwork

Next == SessionOps \/ WalletOps \/ TokenOps \/ NetworkOps

Spec == Init /\ [][Next]_vars

\* the six create, import, derive and delete operations of the registry alone
NextRegistry ==
    \/ unlockStore
    \/ createHDWallet \/ importMnemonic \/ deriveNewAccount \/ importPrivateKey
    \/ deleteActiveAccount \/ deleteActiveWallet
SpecRegistry == InitWith({"none"}, MaxWalletOps) /\ [][NextRegistry]_vars

\* the operations that can fail, on a store that starts with no file and on
\* the two stores with a pointer that names nothing
InitStored == InitWith({"none", "staleWallet", "staleAccount"}, MaxStoredOps)
NextStored ==
    \/ unlockStore
    \/ createHDWallet \/ importMnemonic \/ deriveNewAccount \/ importPrivateKey
    \/ deleteActiveAccount \/ deleteActiveWallet
    \/ TokenOps \/ switchNetwork \/ deleteActiveNetwork
SpecStored == InitStored /\ [][NextStored]_vars

\* the identity registry alone, on a store that starts with no file
InitWallet == InitWith({"none"}, MaxWalletOps)
NextWallet == unlockStore \/ Restart \/ WalletOps
SpecWallet == InitWallet /\ [][NextWallet]_vars

\* the identity registry as the menu drives it (cli.ts:279-303, 397-403):
\* each handler is awaited before the next is called, so that no operation
\* runs while a prompt is open
InitAwaited == InitWith({"none"}, MaxWalletOps)
NextAwaited ==
    \/ prompt = null /\ unlockStore
    \/ prompt = null /\ createHDWallet
    \/ prompt = null /\ importMnemonic
    \/ prompt = null /\ deriveNewAccount
    \/ prompt = null /\ importPrivateKey
    \/ prompt = null /\ deleteActiveAccount
    \/ prompt = null /\ deleteActiveWallet
    \/ handleSwitchWallet \/ handleSwitchWalletAnswer
    \/ handleSwitchAccount \/ handleSwitchAccountAnswer
    \/ Restart
SpecAwaited == InitAwaited /\ [][NextAwaited]_vars

\* the token list alone
InitTokens == InitWith({"none"}, MaxTokenOps)
NextTokens == unlockStore \/ Restart \/ TokenOps \/ getTokens
SpecTokens == InitTokens /\ [][NextTokens]_vars

\* the files unlockStore can find, and the operations that run on any document
\* it loads from them
EncryptedOrigins == {"encrypted", "encryptedWallet", "intermediate"}
InitFiles == InitWith(DOMAIN InitialFiles \ {"none"}, MaxFileOps)
NextFiles == unlockStore \/ Restart \/ loadStore \/ getActiveNetwork \/ TokenOps
SpecFiles == InitFiles /\ [][NextFiles]_vars

\* the identity registry and the account the transfers sign with
InitSigning == InitWith({"none"}, MaxSigningOps)
NextSigning == unlockStore \/ WalletOps \/ getActiveViemAccount
SpecSigning == InitSigning /\ [][NextSigning]_vars

\* the operations that handle private keys
InitEnv == InitStore({"none"}, MaxEnvOps) /\ env \in InitialEnvs
NextEnv ==
    \/ unlockStore \/ Restart \/ createHDWallet \/ importPrivateKey
    \/ generateWallet \/ setTokenAddress \/ callUpdateEnv
SpecEnv == InitEnv /\ [][NextEnv]_vars

\* the network registry alone
InitNetworks == InitWith({"none"}, MaxNetworkOps)
NextNetworks == unlockStore \/ Restart \/ NetworkOps
SpecNetworks == InitNetworks /\ [][NextNetworks]_vars

\* the process started from the command line, on every file it can find, and
\* the processes started after it
InitStartup == InitWith(DOMAIN InitialFiles, MaxStartupOps)
NextStartup ==
    \/ startup \/ createPassword \/ confirmPassword \/ keypress \/ enterPassword
    \/ otherProcessUnlock \/ Restart
SpecStartup == InitStartup /\ [][NextStartup]_vars

\* keystore imports, and the registry operations that can run while a
\* decryption is pending
InitKeystore == InitWith({"none"}, MaxKeystoreOps)
NextKeystore ==
    \/ unlockStore \/ createHDWallet \/ deleteActiveAccount \/ deleteActiveWallet
    \/ importKeystore \/ importKeystoreResume
SpecKeystore == InitKeystore /\ [][NextKeystore]_vars

-----------------------------------------------------------------------------
(* What the claims speak of. *)

\* a key is held and loadStore gives a document (actions.ts:373-378)
Unlocked == sessionKey # null /\ ~NoDocument(cachedData)
Succeeded(ops) == last.op \in ops /\ last.err = "none"

\* the accounts of the wallet the document names as active
ActiveWalletAddresses(store) ==
    LET i == FindWallet(store, Get(store, "activeWalletId"))
    IN  IF i = 0 THEN {}
        ELSE {store.wallets[i].accounts[k].address : k \in DOMAIN store.wallets[i].accounts}

\* a document as its readers see it: the three lists it has, and the three
\* pointers, where an absent pointer reads as undefined
ListFields == {"wallets", "networks", "tokens"}
DocView(data) ==
    [lists |-> [f \in DOMAIN data \cap ListFields |-> data[f]],
     pointers |-> [f \in PointerFields |-> Get(data, f)]]

IsEnvelopeFile(f) ==
    /\ f.exists /\ f.parses /\ IsEncryptedJson(f.json)
    /\ {"salt", "iv", "tag", "data"} \subseteq DOMAIN f.json

\* a plaintext file that holds a document: no marker, and a wallets list
IsLegacyFile(f) ==
    /\ f.exists /\ f.parses /\ ~IsEncryptedJson(f.json)
    /\ Has(f.json, "wallets")

\* the file is an envelope that opens under key and holds what JSON.stringify
\* writes of data
Holds(f, key, data) ==
    /\ IsEnvelopeFile(f)
    /\ DecipherOk(key, f.json.iv, f.json.tag, f.json.data)
    /\ f.json.data.text = JsonRoundTrip(data)

RegistryOps ==
    {"createHDWallet", "importMnemonic", "deriveNewAccount", "importPrivateKey",
     "deleteActiveAccount", "deleteActiveWallet"}
SwitchOps == {"handleSwitchWallet", "handleSwitchAccount"}
TokenOpNames == {"addToken", "removeToken"}
NetworkMutations == {"addNetwork", "switchNetwork", "deleteActiveNetwork"}
MutatingOps == RegistryOps \cup SwitchOps \cup TokenOpNames \cup NetworkMutations
\* the operations built on loadStore
StoreOps == MutatingOps \cup {"loadStore", "getActiveNetwork"}

-----------------------------------------------------------------------------
(* C1 *)

\* C1: on a store created fresh, after every successful createHDWallet,
\* importMnemonic, deriveNewAccount, importPrivateKey, deleteActiveAccount or
\* deleteActiveWallet, for any id of an existing wallet, activeAccountAddress is
\* unset or is the address of an account of the wallet activeWalletId names.
C1_ActiveAccountInActiveWallet ==
    (Unlocked /\ Succeeded(RegistryOps)) =>
        \/ Falsy(cachedData, "activeAccountAddress")
        \/ cachedData.activeAccountAddress \in ActiveWalletAddresses(cachedData)

-----------------------------------------------------------------------------
(* C2 *)

\* C2: every successful deriveNewAccount on a wallet derives at an index
\* strictly greater than every index derived in that wallet before, also when
\* deleteActiveAccount calls come between the derivations.
C2_DeriveIndexNeverReused ==
    [][(last'.op = "deriveNewAccount" /\ last'.err = "none") =>
          \A d \in everDerived :
              d[1] = last'.args[1] => d[2] < ParseIndex(last'.ret.path)]_vars

-----------------------------------------------------------------------------
(* C3 *)

\* C3: as long as no unlock has succeeded in this process, every operation
\* built on loadStore fails with the locked error and leaves the file as it is.
C3_LockedOperationsFail ==
    [][(sessionKey = null /\ last'.op \in StoreOps) =>
          (last'.err \in {StoreLocked, SaveLocked} /\ file' = file)]_vars

-----------------------------------------------------------------------------
(* C4 *)

Locked == sessionKey = null /\ cachedData = null

\* C4: from a locked session, unlockStore on an encrypted file with a password
\* that does not give the key the file was encrypted under throws "Incorrect
\* password", leaves the session locked (no key, no document) and leaves the
\* file as it was.
C4_WrongPasswordStaysLocked ==
    [][(/\ Locked
        /\ IsEnvelopeFile(file)
        /\ last'.op = "unlockStore"
        /\ deriveKey(last'.args[1], file.json.salt) # file.json.data.under[1])
       => (/\ last'.err = IncorrectPassword
           /\ sessionKey' = null
           /\ cachedData' = null
           /\ file' = file)]_vars

\* an encrypted file was refused and the session is still locked
C4_Witness ==
    /\ last.op = "unlockStore" /\ last.err = IncorrectPassword
    /\ IsEnvelopeFile(file)
    /\ deriveKey(last.args[1], file.json.salt) # file.json.data.under[1]
    /\ Locked

-----------------------------------------------------------------------------
(* C5 *)

\* C5: after every successful mutating operation (one that has returned, and
\* not before changing anything) the file is an envelope that opens under the
\* session key, and the document in it reads as the document in memory.
C5_FileFollowsMemory ==
    (Succeeded(MutatingOps) /\ last.ret \notin {EarlyReturn, Awaiting}) =>
        /\ IsEnvelopeFile(file)
        /\ DecipherOk(sessionKey, file.json.iv, file.json.tag, file.json.data)
        /\ DocView(file.json.data.text) = DocView(cachedData)

-----------------------------------------------------------------------------
(* C6 *)

\* C6: when the process before this one was unlocked with password p, unlockStore(p)
\* in a new process succeeds and the document it loads reads as the last
\* document of that process; and the salt in the file is the salt of the
\* session key.
C6_ReopenRoundTrip ==
    /\ [][(/\ Locked
           /\ previous.key # null
           /\ last'.op = "unlockStore"
           /\ last'.args[1] = previous.key.password)
          => (/\ last'.err = "none"
              /\ DocView(cachedData') = DocView(previous.data))]_vars
    /\ []((Unlocked /\ IsEnvelopeFile(file)) => file.json.salt = sessionKey.salt)

-----------------------------------------------------------------------------
(* C7 *)

\* C7: unlockStore with no file succeeds for every password; the document has
\* the networks sepolia and anvil and no other, no wallet, no token,
\* activeNetworkId "sepolia" and no active wallet or account; the file is then
\* an encrypted envelope.
C7_FreshUnlock ==
    [][(~file.exists /\ last'.op = "unlockStore") =>
          /\ last'.err = "none"
          /\ sessionKey' # null
          /\ cachedData' # null
          /\ DOMAIN cachedData' \cap ListFields = ListFields
          /\ Len(cachedData'.networks) = 2
          /\ cachedData'.networks[1].id = "sepolia"
          /\ cachedData'.networks[2].id = "anvil"
          /\ cachedData'.wallets = <<>>
          /\ cachedData'.tokens = <<>>
          /\ Get(cachedData', "activeNetworkId") = "sepolia"
          /\ Falsy(cachedData', "activeWalletId")
          /\ Falsy(cachedData', "activeAccountAddress")
          /\ IsEnvelopeFile(file')]_vars

\* the first call of a process that found no file was an unlock with the
\* second password
C7_Witness ==
    /\ origin = "none"
    /\ budget = MaxOps - 1
    /\ last.op = "unlockStore" /\ last.err = "none"
    /\ last.args[1] = "tr0ub4dor"
    /\ Unlocked
    /\ IsEnvelopeFile(file)

-----------------------------------------------------------------------------
(* C8 *)

-----------------------------------------------------------------------------
(* C9 *)

\* C9: on a store created fresh, after any addNetwork, switchNetwork and
\* deleteActiveNetwork calls, failed or not, activeNetworkId is unset or is the
\* id of a network of the list, and getActiveNetwork does not throw "Active
\* network configuration not found".
C9_ActiveNetworkExists ==
    cachedData # null =>
        /\ \/ Falsy(cachedData, "activeNetworkId")
           \/ cachedData.activeNetworkId \in NetworkIds(cachedData)
        /\ getActiveNetworkError(cachedData) # ActiveNetworkNotFound
        /\ last.op = "getActiveNetwork" => last.err = "none"

\* a network was added, made active and deleted, and getActiveNetwork answers
C9_Witness ==
    /\ last.op = "getActiveNetwork" /\ last.err = "none"
    /\ uuidCount = 1
    /\ Len(cachedData.networks) = 2
    /\ cachedData.activeNetworkId = "sepolia"

-----------------------------------------------------------------------------
(* C10 *)

TokenKey(t) == <<toLowerCase(t.address), t.chainId>>

\* C10: on a store that started with no tokens, no two tokens of the document
\* have the same lower-cased address and chainId; addToken of a token whose
\* address and chainId match an existing one up to letter case throws "Token
\* already exists" and leaves the list as it was; any other token is appended.
C10_TokenUniqueness ==
    /\ [](cachedData # null =>
            \A i, j \in DOMAIN cachedData.tokens :
                TokenKey(cachedData.tokens[i]) = TokenKey(cachedData.tokens[j]) => i = j)
    /\ [][(cachedData # null /\ last'.op = "addToken") =>
            LET token == last'.args[1] IN
            IF \E k \in DOMAIN cachedData.tokens :
                    TokenKey(cachedData.tokens[k]) = TokenKey(token)
            THEN /\ last'.err = TokenAlreadyExists
                 /\ cachedData'.tokens = cachedData.tokens
            ELSE /\ last'.err = "none"
                 /\ cachedData'.tokens = Append(cachedData.tokens, token)]_vars

\* the list holds one address on two chains, and adding it again in another
\* letter case was refused
C10_Witness ==
    /\ last.op = "addToken" /\ last.err = TokenAlreadyExists
    /\ Len(cachedData.tokens) = 2
    /\ cachedData.tokens[1].address = cachedData.tokens[2].address
    /\ cachedData.tokens[1].chainId # cachedData.tokens[2].chainId
    /\ last.args[1].address # cachedData.tokens[1].address
    /\ toLowerCase(last.args[1].address) = toLowerCase(cachedData.tokens[1].address)

-----------------------------------------------------------------------------
(* C11 *)

\* C11: unlockStore on a plaintext document succeeds for every password; the
\* document in memory is the content of the file, a salt is drawn, the session
\* key is derived from the password and that salt, and the file is rewritten as
\* an envelope under that key; and a file that is an envelope is an envelope
\* after every operation.
C11_LegacyUpgrade ==
    /\ [][(IsLegacyFile(file) /\ last'.op = "unlockStore") =>
            /\ last'.err = "none"
            /\ cachedData' = file.json
            /\ currentSalt' \in Salts
            /\ sessionKey' = deriveKey(last'.args[1], currentSalt')
            /\ Holds(file', sessionKey', file.json)
            /\ file'.json.salt = currentSalt']_vars
    /\ [][IsEnvelopeFile(file) => IsEnvelopeFile(file')]_vars

\* the first call on a plaintext file was an unlock with the second password,
\* and the file is an envelope under the key of that password
C11_Witness ==
    /\ origin = "legacy"
    /\ budget = MaxOps - 1
    /\ last.op = "unlockStore" /\ last.err = "none"
    /\ sessionKey # null /\ sessionKey.password = "tr0ub4dor"
    /\ cachedData = FirstSchemaData
    /\ Holds(file, sessionKey, FirstSchemaData)

-----------------------------------------------------------------------------
(* C12 *)

\* C12: on a store whose file was encrypted before networks or tokens existed,
\* an unlock that follows a successful unlock with the same password, in the
\* same process or as the first call of the next one, succeeds, gives the same
\* document and does not write the file.
C12_UnlockIdempotent ==
    /\ [][(/\ origin \in EncryptedOrigins
           /\ last.op = "unlockStore" /\ last.err = "none"
           /\ last'.op = "unlockStore" /\ last'.args = last.args)
          => (/\ last'.err = "none"
              /\ cachedData' = cachedData
              /\ file' = file)]_vars
    /\ [][(/\ origin \in EncryptedOrigins
           /\ last.op = "restart" /\ previous.key # null
           /\ last'.op = "unlockStore" /\ last'.args[1] = previous.key.password)
          => (/\ last'.err = "none"
              /\ cachedData' = previous.data
              /\ file' = file)]_vars

\* a document of the first schema was unlocked, the process ended, and the
\* next process unlocked the migrated file: two networks, no more
C12_Witness ==
    /\ origin = "encryptedWallet"
    /\ budget = MaxFileOps - 3
    /\ last.op = "unlockStore" /\ last.err = "none"
    /\ previous.key # null /\ previous.data = cachedData
    /\ cachedData.networks = defaultNetworks
    /\ cachedData.wallets = FirstSchemaWallet.wallets

-----------------------------------------------------------------------------
(* C13 *)

\* C13: when unlockStore opens an encrypted document without networks, the
\* document it leaves has the two built-in networks, activeNetworkId "sepolia"
\* and tokens = []; when only tokens is absent, tokens becomes [] and networks
\* is kept; in both cases wallets and the two wallet pointers are as they were
\* in the file, and the file holds the migrated document.
C13_MigrationOnLoad ==
    [][(IsEnvelopeFile(file) /\ last'.op = "unlockStore" /\ last'.err = "none") =>
          LET d == file.json.data.text IN
          /\ Missing(d, "networks") =>
                /\ cachedData'.networks = defaultNetworks
                /\ Get(cachedData', "activeNetworkId") = "sepolia"
                /\ cachedData'.tokens = <<>>
          /\ (Has(d, "networks") /\ Missing(d, "tokens")) =>
                /\ cachedData'.tokens = <<>>
                /\ cachedData'.networks = d.networks
          /\ (Missing(d, "networks") \/ Missing(d, "tokens")) =>
                /\ Get(cachedData', "wallets") = Get(d, "wallets")
                /\ Get(cachedData', "activeWalletId") = Get(d, "activeWalletId")
                /\ Get(cachedData', "activeAccountAddress") = Get(d, "activeAccountAddress")
                /\ Holds(file', sessionKey', cachedData')]_vars

-----------------------------------------------------------------------------
(* C14 *)

\* C14: from a locked session, unlockStore on a file that is neither a
\* well-formed envelope (marker, salt, iv, tag, data) nor a plaintext document
\* throws "Corrupted wallet data file", leaves the session locked and does not
\* write the file.
C14_CorruptedFileRefused ==
    [][(/\ Locked
        /\ file.exists /\ ~IsEnvelopeFile(file) /\ ~IsLegacyFile(file)
        /\ last'.op = "unlockStore")
       => (/\ last'.err = CorruptedDocument
           /\ sessionKey' = null
           /\ cachedData' = null
           /\ file' = file)]_vars

-----------------------------------------------------------------------------
(* C15 *)

\* the list without its element at position i
RemoveAt(list, i) == SubSeq(list, 1, i - 1) \o SubSeq(list, i + 1, Len(list))

C15_WitnessRemoved ==
    /\ Succeeded({"deleteActiveWallet"})
    /\ uuidCount = 2
    /\ Len(cachedData.wallets) = 1
    /\ cachedData.wallets[1].id = Uuid(1)
    /\ cachedData.activeWalletId = Uuid(1)
    /\ cachedData.activeAccountAddress = cachedData.wallets[1].accounts[1].address

-----------------------------------------------------------------------------
(* C16 *)

\* C16: deleteActiveAccount throws when no wallet is active, when
\* activeAccountAddress is unset ("No active account selected") and when no
\* account of the active wallet has that address ("Account not found in active
\* wallet"); otherwise it removes the active account from the active wallet,
\* the other accounts of the wallet staying, sets activeAccountAddress to the
\* first account left or unsets it when none is left, and leaves the other
\* wallets and activeWalletId as they were.
C16_DeleteActiveAccount ==
    [][(cachedData # null /\ last'.op = "deleteActiveAccount") =>
          LET i == FindWallet(cachedData, Get(cachedData, "activeWalletId")) IN
          IF i = 0
          THEN last'.err = NoActiveWallet /\ cachedData' = cachedData
          ELSE IF Falsy(cachedData, "activeAccountAddress")
          THEN last'.err = NoActiveAccount /\ cachedData' = cachedData
          ELSE LET accounts == cachedData.wallets[i].accounts
                   k == FindIndex(accounts,
                                  LAMBDA a : a.address = cachedData.activeAccountAddress)
               IN  IF k = 0
                   THEN last'.err = AccountNotFound /\ cachedData' = cachedData
                   ELSE /\ last'.err = "none"
                        /\ cachedData'.wallets =
                               [cachedData.wallets EXCEPT ![i].accounts = RemoveAt(accounts, k)]
                        /\ cachedData'.activeAccountAddress =
                               FirstAddress(cachedData'.wallets[i].accounts)
                        /\ cachedData'.activeWalletId = cachedData.activeWalletId]_vars

-----------------------------------------------------------------------------
(* C17 *)

\* C17: importMnemonic of a phrase of fewer than 12 words throws "Invalid
\* mnemonic" and changes nothing; of a phrase of 12 words it appends one hd
\* wallet with that phrase and exactly 10 accounts, the k-th derived at index
\* k - 1, makes the wallet and its first account active, and leaves the
\* wallets that existed as they were.
C17_ImportMnemonic ==
    [][(cachedData # null /\ last'.op = "importMnemonic") =>
          LET mnemonic == last'.args[1] IN
          IF Len(mnemonic) < 12
          THEN last'.err = InvalidMnemonic /\ cachedData' = cachedData /\ file' = file
          ELSE /\ last'.err = "none"
               /\ Len(cachedData'.wallets) = Len(cachedData.wallets) + 1
               /\ SubSeq(cachedData'.wallets, 1, Len(cachedData.wallets)) = cachedData.wallets
               /\ LET w == cachedData'.wallets[Len(cachedData'.wallets)] IN
                  /\ w.type = "hd"
                  /\ w.mnemonic = mnemonic
                  /\ w.id \notin WalletIds(cachedData)
                  /\ Len(w.accounts) = 10
                  /\ \A k \in 1..10 :
                        /\ w.accounts[k].path = PathOf(k - 1)
                        /\ w.accounts[k].address = mnemonicToAccount(mnemonic, k - 1)
                  /\ cachedData'.activeWalletId = w.id
                  /\ cachedData'.activeAccountAddress = mnemonicToAccount(mnemonic, 0)
                  /\ getActiveAccount(cachedData') = w.accounts[1]]_vars

\* a phrase was imported into a store that had a wallet, and a phrase of 11
\* words was refused after it
C17_Witness ==
    /\ last.op = "importMnemonic" /\ last.err = InvalidMnemonic
    /\ last.args[1] = ShortPhrase
    /\ Len(cachedData.wallets) = 2
    /\ cachedData.wallets[2].mnemonic = OwnPhrase
    /\ Len(cachedData.wallets[2].accounts) = 10
    /\ cachedData.activeWalletId = cachedData.wallets[2].id

-----------------------------------------------------------------------------
(* C18 *)

\* C18: createHDWallet appends one hd wallet whose phrase no wallet of the
\* store has, with exactly one account, derived at index 0; the wallet and the
\* account become the active wallet and the active account; the call returns
\* the phrase and the address of the account.
C18_CreateHDWallet ==
    [][(cachedData # null /\ last'.op = "createHDWallet") =>
          /\ last'.err = "none"
          /\ Len(cachedData'.wallets) = Len(cachedData.wallets) + 1
          /\ SubSeq(cachedData'.wallets, 1, Len(cachedData.wallets)) = cachedData.wallets
          /\ LET w == cachedData'.wallets[Len(cachedData'.wallets)] IN
             /\ w.type = "hd"
             /\ w.id \notin WalletIds(cachedData)
             /\ \A j \in DOMAIN cachedData.wallets :
                   cachedData.wallets[j].mnemonic # w.mnemonic
             /\ Len(w.accounts) = 1
             /\ w.accounts[1].path = PathOf(0)
             /\ w.accounts[1].address = mnemonicToAccount(w.mnemonic, 0)
             /\ cachedData'.activeWalletId = w.id
             /\ cachedData'.activeAccountAddress = w.accounts[1].address
             /\ getActiveAccount(cachedData') = w.accounts[1]
             /\ last'.ret = [mnemonic |-> w.mnemonic, address |-> w.accounts[1].address]]_vars

\* a second wallet was created while the first was active
C18_Witness ==
    /\ Succeeded({"createHDWallet"})
    /\ genCount = 2
    /\ Len(cachedData.wallets) = 2
    /\ cachedData.wallets[1].mnemonic # cachedData.wallets[2].mnemonic
    /\ Len(cachedData.wallets[2].accounts) = 1
    /\ cachedData.activeWalletId = cachedData.wallets[2].id
    /\ last.ret.address = cachedData.activeAccountAddress

-----------------------------------------------------------------------------
(* C19 *)

\* C19: the wallet that Generate New Wallet (createHDWallet) has created holds
\* 10 accounts.
C19_GenerateCreatesTen ==
    (Unlocked /\ Succeeded({"createHDWallet"})) =>
        Len(cachedData.wallets[Len(cachedData.wallets)].accounts) = 10

-----------------------------------------------------------------------------
(* C20 *)

\* C20: importPrivateKey throws "Wallet not found" when no wallet has the id,
\* and throws when the key gives no account, and then changes nothing;
\* otherwise it appends to that wallet exactly one account, with the key as it
\* was given and no derivation path, and that account is the active account.
C20_ImportPrivateKey ==
    [][(cachedData # null /\ last'.op = "importPrivateKey") =>
          LET privateKey == last'.args[1]
              i == FindWallet(cachedData, last'.args[2])
          IN  IF i = 0
              THEN last'.err = WalletNotFound /\ cachedData' = cachedData /\ file' = file
              ELSE IF privateKeyToAccount(privateKey) = ""
              THEN last'.err # "none" /\ cachedData' = cachedData /\ file' = file
              ELSE LET account == [address |-> privateKeyToAccount(privateKey),
                                   privateKey |-> privateKey]
                   IN  /\ last'.err = "none"
                       /\ cachedData'.wallets =
                              [cachedData.wallets EXCEPT ![i].accounts = Append(@, account)]
                       /\ ~Has(account, "path")
                       /\ getActiveAccount(cachedData') = account]_vars

-----------------------------------------------------------------------------
(* C21 *)

\* C21: on a store created fresh, sepolia and anvil are in the networks list
\* after any network operations; deleteActiveNetwork throws "Cannot delete
\* default networks" and changes nothing when the active network is sepolia
\* or anvil, and otherwise removes the active network, keeps the others in
\* their order and sets activeNetworkId to "sepolia".
C21_BuiltInNetworksStay ==
    /\ [](cachedData # null => {"sepolia", "anvil"} \subseteq NetworkIds(cachedData))
    /\ [][(/\ cachedData # null
           /\ ~Falsy(cachedData, "activeNetworkId")
           /\ last'.op = "deleteActiveNetwork")
          => IF cachedData.activeNetworkId \in {"sepolia", "anvil"}
             THEN /\ last'.err = CannotDeleteDefaultNetwork
                  /\ cachedData' = cachedData
                  /\ file' = file
             ELSE /\ last'.err = "none"
                  /\ cachedData'.networks =
                        RemoveAt(cachedData.networks,
                                 FindNetwork(cachedData, cachedData.activeNetworkId))
                  /\ cachedData'.activeNetworkId = "sepolia"]_vars

\* deleting was refused while anvil was active and a third network existed
C21_Witness ==
    /\ last.op = "deleteActiveNetwork" /\ last.err = CannotDeleteDefaultNetwork
    /\ cachedData.activeNetworkId = "anvil"
    /\ Len(cachedData.networks) = 3

-----------------------------------------------------------------------------
(* C22 *)

\* C22: on a store created fresh, whatever the registry operations have made
\* the active account, getActiveViemAccount does not throw "Invalid account
\* state"; it builds the account from the raw key when the active account has
\* one, and otherwise from the mnemonic of the active wallet at the index
\* parsed from the path of the account.
C22_SigningIdentityResolves ==
    /\ cachedData # null =>
          getActiveViemAccountResult(cachedData).err # InvalidAccountState
    /\ last.op = "getActiveViemAccount" =>
          /\ last.err # InvalidAccountState
          /\ last.err = "none" =>
                LET account == getActiveAccount(cachedData)
                    wallet == cachedData.wallets[FindWallet(cachedData,
                                                            cachedData.activeWalletId)]
                IN  IF Has(account, "privateKey")
                    THEN /\ last.ret.source = "privateKey"
                         /\ last.ret.address = privateKeyToAccount(account.privateKey)
                    ELSE /\ last.ret.source = "mnemonic"
                         /\ last.ret.address =
                               mnemonicToAccount(wallet.mnemonic, ParseIndex(account.path))

\* the account was built from the raw key of an imported account, in a wallet
\* that has a derived account as well
C22_Witness ==
    /\ last.op = "getActiveViemAccount" /\ last.err = "none"
    /\ last.ret.source = "privateKey"
    /\ last.ret.address = ExternalAddress
    /\ Len(cachedData.wallets) = 1
    /\ Len(cachedData.wallets[1].accounts) = 3
    /\ ParseIndex(cachedData.wallets[1].accounts[2].path) = 1

-----------------------------------------------------------------------------
(* C23 *)

\* C23: on a store created fresh, every account of the document in the file
\* has exactly one key source: a derivation path and no raw key, in an hd
\* wallet that has a mnemonic, or a raw key and no derivation path.
C23_OneKeySource ==
    IsEnvelopeFile(file) =>
        LET document == file.json.data.text IN
        \A i \in DOMAIN document.wallets :
            \A k \in DOMAIN document.wallets[i].accounts :
                LET wallet == document.wallets[i]
                    account == wallet.accounts[k]
                IN  \/ /\ Has(account, "path") /\ ~Has(account, "privateKey")
                       /\ wallet.type = "hd" /\ Has(wallet, "mnemonic")
                    \/ /\ Has(account, "privateKey") /\ ~Has(account, "path")

\* the file holds a wallet with ten derived accounts and one imported key
C23_Witness ==
    /\ IsEnvelopeFile(file)
    /\ Len(file.json.data.text.wallets) = 1
    /\ Len(file.json.data.text.wallets[1].accounts) = 11
    /\ Has(file.json.data.text.wallets[1].accounts[10], "path")
    /\ Has(file.json.data.text.wallets[1].accounts[11], "privateKey")

-----------------------------------------------------------------------------
(* C25 *)

\* C25: once the session has a key and a document, every call of the process,
\* failing or not, leaves it with a key, a salt and a document; only the end
\* of the process clears them.
C25_UnlockedIsTerminal ==
    [][(Unlocked /\ last'.op # "restart") =>
          (sessionKey' # null /\ cachedData' # null /\ currentSalt' # nullSalt)]_vars

\* an unlocked session was asked to unlock with a wrong password and is still
\* unlocked
C25_Witness ==
    /\ last.op = "unlockStore" /\ last.err = IncorrectPassword
    /\ Unlocked
    /\ sessionKey.password # last.args[1]

-----------------------------------------------------------------------------
(* C26 *)

\* C26: a file that is an envelope keeps its salt under every operation;
\* unlockStore on an envelope takes the salt of the file as the salt of the
\* session; and only unlockStore changes the salt of the session.
C26_SaltIsStable ==
    /\ [][IsEnvelopeFile(file) =>
            (IsEnvelopeFile(file') /\ file'.json.salt = file.json.salt)]_vars
    /\ [][(IsEnvelopeFile(file) /\ last'.op = "unlockStore") =>
            currentSalt' = file.json.salt]_vars
    /\ [][(currentSalt' # currentSalt /\ last'.op # "restart") =>
            (last'.op = "unlockStore" /\ (IsEnvelopeFile(file) => currentSalt' = file.json.salt))]_vars

\* a store encrypted by an earlier process was unlocked and a wallet was saved
\* into it under the salt the file came with
C26_Witness ==
    /\ origin = "encrypted"
    /\ Succeeded({"createHDWallet"})
    /\ IsEnvelopeFile(file)
    /\ file.json.salt = "salt1"
    /\ currentSalt = "salt1"
    /\ Len(file.json.data.text.wallets) = 1

-----------------------------------------------------------------------------
(* C27 *)

\* C27: on a store created fresh, removeToken raises no error, removes the
\* tokens whose lower-cased address and chainId are those of the arguments and
\* keeps the others in their order, so that the list is unchanged when none
\* matches; getTokens(chainId) returns the tokens of the document with that
\* chainId, in their order, and no other.
C27_RemoveAndGetTokens ==
    /\ [][(cachedData # null /\ last'.op = "removeToken") =>
            LET token == last'.args[1] IN
            /\ last'.err = "none"
            /\ cachedData'.tokens =
                  SelectSeq(cachedData.tokens, LAMBDA t : TokenKey(t) # TokenKey(token))
            /\ (\A k \in DOMAIN cachedData.tokens :
                    TokenKey(cachedData.tokens[k]) # TokenKey(token))
                 => cachedData'.tokens = cachedData.tokens]_vars
    /\ []((cachedData # null /\ last.op = "getTokens") =>
            /\ last.err = "none"
            /\ last.ret.tokens =
                  SelectSeq(cachedData.tokens, LAMBDA t : t.chainId = last.args[1]))

\* the address was stored on two chains and removed, written in another letter
\* case, from one of them: the token of the other chain stays
C27_Witness ==
    /\ Succeeded({"removeToken"})
    /\ budget = MaxTokenOps - 4
    /\ previous.key = null
    /\ Len(cachedData.tokens) = 1
    /\ cachedData.tokens[1].chainId # last.args[1].chainId
    /\ cachedData.tokens[1].address # last.args[1].address
    /\ toLowerCase(cachedData.tokens[1].address) = toLowerCase(last.args[1].address)

-----------------------------------------------------------------------------
(* C28 *)

RegistryFailures ==
    {CannotDerive, WalletNotFound, InvalidKey, InvalidMnemonic, NoActiveWallet,
     NoActiveAccount, AccountNotFound, NoActiveWalletSelected, TokenAlreadyExists,
     NetworkNotFound, CannotDeleteDefaultNetwork}

\* C28: a call that throws one of the errors of the registry (no such wallet,
\* wallet not hd, invalid key, short mnemonic, nothing active, no match,
\* duplicate token, unknown network, built-in network) leaves the document in
\* memory and the file as they were before the call.
C28_FailuresChangeNothing ==
    [][last'.err \in RegistryFailures =>
          (cachedData' = cachedData /\ file' = file)]_vars

\* deleteActiveAccount found no account with the active address in the active
\* wallet: it threw after it had assigned the filtered list, and the document
\* and the file are as they were
C28_Witness ==
    /\ last.op = "deleteActiveAccount" /\ last.err = AccountNotFound
    /\ origin = "staleAccount"
    /\ cachedData = StaleAccountData
    /\ file = InitialFiles["staleAccount"]

\* a token was refused as a duplicate on a store that holds one token
C28_WitnessDuplicate ==
    /\ last.op = "addToken" /\ last.err = TokenAlreadyExists
    /\ IsEnvelopeFile(file)
    /\ Len(file.json.data.text.tokens) = 1
    /\ Len(cachedData.tokens) = 1

-----------------------------------------------------------------------------
(* C29 *)

\* C29: saveStore called while the session has no key and no document throws
\* "Cannot save: Wallet locked" and leaves the session without key and without
\* document; loadStore called while there is no key throws "Wallet locked.
\* Please unlock first."
C29_LockedSaveStaysLocked ==
    /\ [][(Locked /\ last'.op = "saveStore") =>
            (/\ last'.err = SaveLocked
             /\ sessionKey' = null
             /\ cachedData' = null
             /\ file' = file)]_vars
    /\ [][(sessionKey = null /\ last'.op = "loadStore") =>
            last'.err = StoreLocked]_vars

-----------------------------------------------------------------------------
(* C30 *)

\* C30: after every successful unlockStore, whatever the file was, the
\* document has a networks list with sepolia and anvil in it and a tokens
\* list, and getActiveNetwork does not throw on it.
C30_UnlockedDocumentIsComplete ==
    [][(last'.op = "unlockStore" /\ last'.err = "none") =>
          /\ Has(cachedData', "networks")
          /\ {"sepolia", "anvil"} \subseteq NetworkIds(cachedData')
          /\ Has(cachedData', "tokens")
          /\ getActiveNetworkError(cachedData') = "none"]_vars

-----------------------------------------------------------------------------
(* C31 *)

\* C31: a deleteActiveAccount that succeeds leaves the active wallet with
\* exactly one account fewer than it had, whatever creations, imports,
\* derivations and deletions built the wallet, wallets that hold the same
\* address more than once included.
C31_DeleteRemovesOneAccount ==
    [][(cachedData # null /\ last'.op = "deleteActiveAccount" /\ last'.err = "none") =>
          LET i == FindWallet(cachedData, Get(cachedData, "activeWalletId")) IN
          /\ i # 0
          /\ Len(cachedData'.wallets) = Len(cachedData.wallets)
          /\ Len(cachedData'.wallets[i].accounts) =
                 Len(cachedData.wallets[i].accounts) - 1]_vars

-----------------------------------------------------------------------------
(* C32 *)

\* C32: after handleSwitchWallet selects the wallet w, activeWalletId is w and
\* activeAccountAddress is the address of the first account of w, or is unset
\* when w has no accounts; after handleSwitchAccount selects an address,
\* activeAccountAddress is the address of an account of the active wallet.
C32_SwitchKeepsPointersConsistent ==
    [][/\ (/\ cachedData # null
           /\ last'.op = "handleSwitchWallet" /\ last'.err = "none"
           /\ last'.ret \notin {EarlyReturn, Awaiting}) =>
              LET i == FindWallet(cachedData', last'.args[1]) IN
              /\ i # 0
              /\ Get(cachedData', "activeWalletId") = last'.args[1]
              /\ Get(cachedData', "activeAccountAddress") =
                     FirstAddress(cachedData'.wallets[i].accounts)
       /\ (/\ cachedData # null
           /\ last'.op = "handleSwitchAccount" /\ last'.err = "none"
           /\ last'.ret \notin {EarlyReturn, Awaiting}) =>
              Get(cachedData', "activeAccountAddress") \in ActiveWalletAddresses(cachedData')
      ]_vars

-----------------------------------------------------------------------------
(* C33 *)

\* C33: on a store created fresh, whenever getActiveViemAccount succeeds the
\* address of the account it builds is activeAccountAddress: every account
\* with a derivation path has the address its wallet's mnemonic gives at the
\* index parsed from the path, and every account with a raw key has the
\* address that key resolves to.
C33_SigningIdentityIsActiveAccount ==
    /\ cachedData # null =>
          /\ \A i \in DOMAIN cachedData.wallets :
                \A k \in DOMAIN cachedData.wallets[i].accounts :
                    LET wallet == cachedData.wallets[i]
                        account == wallet.accounts[k]
                    IN  /\ Has(account, "path") =>
                              account.address =
                                  mnemonicToAccount(wallet.mnemonic, ParseIndex(account.path))
                        /\ Has(account, "privateKey") =>
                              account.address = privateKeyToAccount(account.privateKey)
          /\ LET result == getActiveViemAccountResult(cachedData)
             IN  result.err = "none" => result.address = cachedData.activeAccountAddress
    /\ (last.op = "getActiveViemAccount" /\ last.err = "none") =>
          last.ret.address = cachedData.activeAccountAddress

\* the call succeeded on an account derived at an index above 0
C33_Witness ==
    /\ last.op = "getActiveViemAccount" /\ last.err = "none"
    /\ last.ret.source = "mnemonic"
    /\ Len(cachedData.wallets) = 1
    /\ Len(cachedData.wallets[1].accounts) = 2
    /\ ParseIndex(cachedData.wallets[1].accounts[2].path) = 1
    /\ last.ret.address = mnemonicToAccount(cachedData.wallets[1].mnemonic, 1)
    /\ last.ret.address = cachedData.activeAccountAddress

-----------------------------------------------------------------------------
(* C34 *)

\* C34: isStoreEncrypted is true exactly for the files on which unlockStore
\* takes the branch of the encrypted envelope, so startup asks for the
\* existing password exactly on those files, and asks to create a password
\* only for files that unlockStore does not try to decrypt.
C34_EncryptedTestAgreesWithUnlock ==
    /\ [](file.exists =>
            (isStoreEncrypted(file) <=> (file.parses /\ IsEncryptedJson(file.json))))
    /\ [][(stage = At("startup") /\ stage' # At("startup") /\ file.exists) =>
            (stage' = At("password") <=> (file.parses /\ IsEncryptedJson(file.json)))]_vars

-----------------------------------------------------------------------------
(* C35 *)

\* C35: the main menu starts only after an unlockStore call has returned: on
\* every path through startup, when the process reaches mainMenu the last
\* store call is an unlockStore that did not throw and the session is
\* unlocked; on every other path the process has exited or is still at the
\* password prompt.
C35_MenuOnlyAfterUnlock ==
    /\ [](stage = At("mainMenu") => Unlocked)
    /\ [][stage' = At("mainMenu") /\ stage # At("mainMenu") =>
            /\ last'.op = "unlockStore" /\ last'.err = "none"
            /\ Unlocked']_vars

-----------------------------------------------------------------------------
(* C36 *)

\* C36: importKeystore changes nothing of the store before the decryption of
\* the keystore has completed.  When the decryption fails the document and the
\* file are unchanged.  When it succeeds the effect is that of one
\* importPrivateKey of the recovered key on the document as it is at that
\* moment: "Wallet not found" and no change when the wallet is not there (for
\* instance deleted while the decryption was pending), otherwise one account
\* with the key appended to the wallet and made the active account.
C36_ImportKeystoreActsAtCompletion ==
    [][/\ (pending = null /\ pending' # null) =>
              /\ cachedData' = cachedData /\ file' = file
              /\ sessionKey' = sessionKey /\ currentSalt' = currentSalt
       /\ (pending # null /\ pending' = null) =>
              /\ last'.op = "importKeystore"
              /\ IF pending.password # pending.keystore.password
                 THEN /\ last'.err = KeystoreError
                      /\ cachedData' = cachedData /\ file' = file
                 ELSE IF cachedData = null
                 THEN /\ last'.err = StoreLocked
                      /\ cachedData' = cachedData /\ file' = file
                 ELSE LET i == FindWallet(cachedData, pending.walletId)
                          key == pending.keystore.privateKey
                          address == privateKeyToAccount(key)
                      IN  IF i = 0
                          THEN /\ last'.err = WalletNotFound
                               /\ cachedData' = cachedData /\ file' = file
                          ELSE /\ last'.err = "none"
                               /\ last'.ret = [address |-> address]
                               /\ cachedData'.wallets =
                                     [cachedData.wallets EXCEPT ![i].accounts =
                                         Append(@, [address |-> address, privateKey |-> key])]
                               /\ cachedData'.activeAccountAddress = address
                               /\ Get(cachedData', "activeWalletId") =
                                     Get(cachedData, "activeWalletId")
                               /\ Holds(file', sessionKey, cachedData')
      ]_vars

\* the import was given the id of the first wallet created and failed with
\* "Wallet not found" on a store that has no wallet left
C36_Witness ==
    /\ last.op = "importKeystore" /\ last.err = WalletNotFound
    /\ pending = null
    /\ last.args[1] = "correct-horse"
    /\ last.args[2] = Uuid(1)
    /\ cachedData # null
    /\ Len(cachedData.wallets) = 0

-----------------------------------------------------------------------------
(* C24 *)

\* C24: no line of the plain-text .env file holds a private key.
C24_NoPrivateKeyInEnv ==
    \A i \in DOMAIN env.lines :
        /\ env.lines[i].key # "PRIVATE_KEY"
        /\ env.lines[i].value \notin GeneratedKeys \cup PrivateKeys

====
